---- MODULE Spec2Model ----
(***************************************************************************)
(* Retention and expiry engine of ThreadSafe: the stored messages, the     *)
(* per-member group status records, the user settings, the request         *)
(* handlers that touch them and the periodic cleanup job of scheduler.py.  *)
(* Time is wall-clock time in hours.                                       *)
(***************************************************************************)
EXTENDS Integers, Sequences, FiniteSets, TLC

(* ------------------------------ bounds --------------------------------- *)
\* the clock advances MaxTicks times, by ClockStep hours each time
ClockStep == 12
MaxTicks == 3

(* ------------------------- program constants --------------------------- *)
\* Python None of a nullable column
None == -1
\* 24-hour fallback of the direct sweep
FALLBACK_HOURS == 24
\* retention the direct sweep applies when the sender has no setting
SWEEP_DEFAULT_RETENTION_HOURS == 24
\* 24-hour fallback of the group sweep
GROUP_FALLBACK_HOURS == 24
\* retention the group sweep applies when the sender has no setting
GROUP_SWEEP_DEFAULT_RETENTION_HOURS == 24
\* horizon of an unsent placeholder
UNSENT_PLACEHOLDER_HOURS == 24
\* expiryTime given to a direct message by _message_expiry_for_user
MESSAGE_EXPIRY_HOURS == 24
\* expiryTime given to a group message by Message.default_expiry_time
GROUP_EXPIRY_HOURS == 24
\* expiryTime given to an unsent group placeholder
UNSENT_EXPIRY_HOURS == 2
\* DEFAULT_RETENTION_HOURS of routes/groups.py
DEFAULT_RETENTION_HOURS == 72

(* ------------------------------ inputs --------------------------------- *)
UserIds == {1, 2, 3}
\* the one group of the model and its owner
GroupId == 1
GroupOwner == 1
\* sender and receiver of the direct conversation that is exercised
DirectSender == 1
DirectReceiver == 2
\* messageRetentionHours values submitted to update_settings
RetentionInputs == {12, 36}
\* users who submit settings
SettingsUsers == {1}
\* members who send the group message, read it, save it, delete it for
\* themselves, and who leave or are removed and added again
GroupSenders == {1}
GroupReaders == {2, 3}
GroupSavers == {2}
GroupDeleters == {3}
GroupLeavers == {3}
\* messageRetentionHours values the group sender submits
GroupRetentionInputs == {12}
\* msgID values the autoincrement key hands out
MsgIds == {1}

VARIABLES
    clock,        \* datetime.utcnow(), in hours
    users,        \* user table: userID -> settings, settings_updated_at
    messages,     \* message table: msgID -> row (domain = stored rows)
    nextMsgID,    \* autoincrement counter of message.msgID
    members,      \* group_member rows of the group: set of userIDs
    groupStatus,  \* group_message_status table: <<msgID, userID>> -> row
    unsavedAt,    \* history: msgID -> time of the last unsave still in force
    emitted,      \* notifications posted to the relay by the last step
    sweeps,       \* cleanup processes: position and the rows each has read
    crypto,       \* key pair, plaintext, stored payload and decryption result
    last          \* history: the last step and the tables before it

vars == <<clock, users, messages, nextMsgID, members, groupStatus,
          unsavedAt, emitted, sweeps, crypto, last>>

(* ------------------------------ helpers -------------------------------- *)
Put(f, k, v) == [x \in (DOMAIN f) \cup {k} |-> IF x = k THEN v ELSE f[x]]
Drop(f, S) == [x \in (DOMAIN f) \ S |-> f[x]]
Max(S) == CHOOSE x \in S : \A y \in S : y <= x
MaxOf(a, b) == IF a >= b THEN a ELSE b

(* ------------------------------- rows ---------------------------------- *)
\* a user row right after registration: settings is NULL
NewUser ==
    [messageRetentionHours |-> None, theme |-> "unset",
     settings_updated_at |-> None]

\* the row create_message stores (retention-relevant columns)
NewDirectMessage(sender, receiver, now) ==
    [senderID |-> sender, receiverID |-> receiver, groupChatID |-> None,
     status |-> "Sent", timeStamp |-> now,
     expiryTime |-> now + MESSAGE_EXPIRY_HOURS,
     read_by_sender_at |-> now, read_by_receiver_at |-> None,
     saved_by_sender |-> FALSE, saved_by_receiver |-> FALSE,
     deleted_for_sender |-> FALSE, deleted_for_receiver |-> FALSE,
     timer_reset_at |-> None, is_unsent |-> FALSE, unsent_at |-> None]

\* the row send_group_message stores
NewGroupMessage(sender, now) ==
    [senderID |-> sender, receiverID |-> None, groupChatID |-> GroupId,
     status |-> "Sent", timeStamp |-> now,
     expiryTime |-> now + GROUP_EXPIRY_HOURS,
     read_by_sender_at |-> None, read_by_receiver_at |-> None,
     saved_by_sender |-> FALSE, saved_by_receiver |-> FALSE,
     deleted_for_sender |-> FALSE, deleted_for_receiver |-> FALSE,
     timer_reset_at |-> None, is_unsent |-> FALSE, unsent_at |-> None]

\* a group_message_status row created with only msgID and userID
NewStatus ==
    [read_at |-> None, saved_by_user |-> FALSE, deleted_for_user |-> FALSE,
     timer_reset_at |-> None]

\* GroupMessageStatus.query.filter_by(msgID, userID).first(), or a new row
StatusOf(st, id, u) ==
    IF <<id, u>> \in DOMAIN st THEN st[<<id, u>>] ELSE NewStatus

(* ------------------- cleanup_expired_messages (1-1) --------------------- *)
\* the query of the direct sweep: 1-1 rows not yet deleted for both sides
MessagesToCheck(msgs) ==
    {id \in DOMAIN msgs :
        /\ msgs[id].groupChatID = None
        /\ (~msgs[id].deleted_for_sender \/ ~msgs[id].deleted_for_receiver)}

\* rows the loop passes over: unsent, or sender / receiver row missing
DirectSkipped(m, us) ==
    \/ m.is_unsent
    \/ m.senderID \notin DOMAIN us
    \/ m.receiverID \notin DOMAIN us

IsSaved(m) == m.saved_by_sender \/ m.saved_by_receiver

\* mutant: the sender's setting is never looked up
SenderRetentionHours_Default(u) == SWEEP_DEFAULT_RETENTION_HOURS

SenderRetentionHours(u) ==
    IF u.messageRetentionHours # None
    THEN u.messageRetentionHours
    ELSE SWEEP_DEFAULT_RETENTION_HOURS

BothRead(m) == m.read_by_sender_at # None /\ m.read_by_receiver_at # None

BothReadTime(m) == MaxOf(m.read_by_sender_at, m.read_by_receiver_at)

\* start of the sender-driven timer of a message read by both sides
SenderStartTime(m, u) ==
    IF m.timer_reset_at # None
    THEN m.timer_reset_at
    ELSE IF u.settings_updated_at # None
            /\ u.settings_updated_at > BothReadTime(m)
         THEN u.settings_updated_at
         ELSE BothReadTime(m)

\* mutant: the fallback runs on the sender's retention instead of 24 hours
DirectDeletionTime_RetentionFallback(m, us) ==
    IF BothRead(m)
    THEN SenderStartTime(m, us[m.senderID])
            + SenderRetentionHours(us[m.senderID])
    ELSE m.timeStamp + SenderRetentionHours(us[m.senderID])

\* sender_deletion_time, or fallback_deletion_time when not read by both
DirectDeletionTime(m, us) ==
    IF BothRead(m)
    THEN SenderStartTime(m, us[m.senderID])
            + SenderRetentionHours(us[m.senderID])
    ELSE m.timeStamp + FALLBACK_HOURS

\* mutant: the saved flags are not consulted
DirectEvaluate_NoSavedCheck(m, us, now) ==
    IF DirectSkipped(m, us) THEN m
    ELSE IF now >= DirectDeletionTime(m, us)
         THEN [m EXCEPT !.deleted_for_sender = TRUE,
                        !.deleted_for_receiver = TRUE]
         ELSE m

\* the row after the loop body up to the purge test
DirectEvaluate(m, us, now) ==
    IF DirectSkipped(m, us) THEN m
    ELSE IF now >= DirectDeletionTime(m, us) /\ ~IsSaved(m)
         THEN [m EXCEPT !.deleted_for_sender = TRUE,
                        !.deleted_for_receiver = TRUE]
         ELSE m

\* mutant: a row whose sender or receiver is missing is purged
DirectHardDelete_OrphanPurged(m, us) ==
    /\ ~m.is_unsent
    /\ \/ DirectSkipped(m, us)
       \/ m.deleted_for_sender /\ m.deleted_for_receiver

\* "Actually delete if both users have marked it deleted"
DirectHardDelete(m, us) ==
    /\ ~DirectSkipped(m, us)
    /\ m.deleted_for_sender /\ m.deleted_for_receiver

\* mutant: only the sender is told about a deletion
DirectEmits_SenderOnly(id, m, m2) ==
    IF ~m.deleted_for_sender /\ m2.deleted_for_sender
    THEN {[kind |-> "message_deleted", to |-> m.senderID, msgID |-> id]}
    ELSE {}

\* emit_message_deleted calls made for one row
DirectEmits(id, m, m2) ==
    (IF ~m.deleted_for_sender /\ m2.deleted_for_sender
     THEN {[kind |-> "message_deleted", to |-> m.senderID, msgID |-> id]}
     ELSE {})
    \cup
    (IF ~m.deleted_for_receiver /\ m2.deleted_for_receiver
     THEN {[kind |-> "message_deleted", to |-> m.receiverID, msgID |-> id]}
     ELSE {})

\* mutant: rows deleted for both sides stay in the table
cleanup_expired_messages_NoPurge(msgs, us, now) ==
    LET cand == MessagesToCheck(msgs)
        ev(id) == DirectEvaluate(msgs[id], us, now)
        flips(id) == Cardinality(DirectEmits(id, msgs[id], ev(id)))
        soft == {id \in cand : flips(id) > 0}
    IN  [messages |-> [id \in DOMAIN msgs |->
                          IF id \in cand THEN ev(id) ELSE msgs[id]],
         emitted |-> UNION {DirectEmits(id, msgs[id], ev(id)) : id \in cand},
         hard_deleted |-> {},
         soft_deleted |-> soft,
         checked |-> cand]

\* the whole direct sweep: the table after commit, the notifications and
\* the statistics it returns
cleanup_expired_messages(msgs, us, now) ==
    LET cand == MessagesToCheck(msgs)
        ev(id) == DirectEvaluate(msgs[id], us, now)
        hard == {id \in cand : DirectHardDelete(ev(id), us)}
        flips(id) == Cardinality(DirectEmits(id, msgs[id], ev(id)))
        soft == {id \in cand : flips(id) > 0}
    IN  [messages |-> [id \in (DOMAIN msgs) \ hard |->
                          IF id \in cand THEN ev(id) ELSE msgs[id]],
         emitted |-> UNION {DirectEmits(id, msgs[id], ev(id)) : id \in cand},
         hard_deleted |-> hard,
         soft_deleted |-> soft,
         checked |-> cand]

(* ----------------- cleanup_expired_group_messages ----------------------- *)
\* the query of the group sweep
GroupMessagesToCheck(msgs) ==
    {id \in DOMAIN msgs :
        msgs[id].groupChatID # None /\ ~msgs[id].is_unsent}

\* status rows of the current members, got or created
MemberStatuses(st, id, mem) == [u \in mem |-> StatusOf(st, id, u)]

GroupIsSaved(ss) == \E u \in DOMAIN ss : ss[u].saved_by_user
\* mutant: the test that precedes the hard delete never succeeds
AllDeleted_Never(ss) == FALSE

AllDeleted(ss) == \A u \in DOMAIN ss : ss[u].deleted_for_user
AllRead(ss) == \A u \in DOMAIN ss : ss[u].read_at # None

\* mutant: the longest retention configured by any user drives the deletion
GroupSenderRetentionHours_AnyUser(us, sender) ==
    Max({GROUP_SWEEP_DEFAULT_RETENTION_HOURS} \cup
        {us[u].messageRetentionHours : u \in DOMAIN us})

GroupSenderRetentionHours(us, sender) ==
    IF sender \in DOMAIN us /\ us[sender].messageRetentionHours # None
    THEN us[sender].messageRetentionHours
    ELSE GROUP_SWEEP_DEFAULT_RETENTION_HOURS

\* timer_reset_at of the member if set, otherwise its read_at
EffectiveReadTime(s) ==
    IF s.timer_reset_at # None THEN s.timer_reset_at ELSE s.read_at

LatestRead(ss) == Max({EffectiveReadTime(ss[u]) : u \in DOMAIN ss})

\* mutant: the sender's retention runs from sentAt before all have read
GroupDeletionTime_RetentionFallback(m, ss, us) ==
    IF AllRead(ss)
    THEN LatestRead(ss) + GroupSenderRetentionHours(us, m.senderID)
    ELSE m.timeStamp + GroupSenderRetentionHours(us, m.senderID)

\* deletion_time when all have read, fallback_time otherwise
GroupDeletionTime(m, ss, us) ==
    IF AllRead(ss)
    THEN LatestRead(ss) + GroupSenderRetentionHours(us, m.senderID)
    ELSE m.timeStamp + GROUP_FALLBACK_HOURS

\* mutant: the saved test is missing
GroupOutcome_NoSavedCheck(m, ss, us, now) ==
    IF DOMAIN ss = {} THEN "skip"
    ELSE IF AllDeleted(ss) THEN "hard_delete"
    ELSE IF now >= GroupDeletionTime(m, ss, us) THEN "soft_delete"
    ELSE "keep"

\* what the loop body does with one group message
GroupOutcome(m, ss, us, now) ==
    IF DOMAIN ss = {} THEN "skip"
    ELSE IF GroupIsSaved(ss) THEN "saved"
    ELSE IF AllDeleted(ss) THEN "hard_delete"
    ELSE IF now >= GroupDeletionTime(m, ss, us) THEN "soft_delete"
    ELSE "keep"

\* the whole group sweep. Status rows created by db.session.add are left
\* pending in the session when the sweep modified no message.
cleanup_expired_group_messages(msgs, st, mem, us, now) ==
    LET cand == GroupMessagesToCheck(msgs)
        ss(id) == MemberStatuses(st, id, mem)
        out(id) == GroupOutcome(msgs[id], ss(id), us, now)
        hard == {id \in cand : out(id) = "hard_delete"}
        soft == {id \in cand : out(id) = "soft_delete"}
        touched == {id \in cand : out(id) # "skip"}
        keys == {k \in (DOMAIN st) \cup (touched \X mem) :
                    ~(k[1] \in hard /\ k[2] \in mem)}
        row(k) == IF k[1] \in soft /\ k[2] \in mem
                  THEN [StatusOf(st, k[1], k[2]) EXCEPT
                            !.deleted_for_user = TRUE]
                  ELSE StatusOf(st, k[1], k[2])
    IN  [messages |-> Drop(msgs, hard),
         session |-> [k \in keys |-> row(k)],
         emitted |->
            {[kind |-> "group_message_deleted", to |-> u, msgID |-> id] :
                <<id, u>> \in {k \in soft \X mem :
                    ~StatusOf(st, k[1], k[2]).deleted_for_user}},
         hard_deleted |-> hard,
         soft_deleted |-> soft,
         modified |-> hard \cup soft,
         checked |-> cand]

(* --------------------- cleanup_unsent_placeholders ---------------------- *)
\* mutant: the placeholder is purged on the 2-hour expiry of its expiryTime
UnsentToDelete_ExpiryHorizon(msgs, now) ==
    {id \in DOMAIN msgs :
        /\ msgs[id].is_unsent
        /\ msgs[id].unsent_at # None
        /\ msgs[id].unsent_at < now - UNSENT_EXPIRY_HOURS}

UnsentToDelete(msgs, now) ==
    {id \in DOMAIN msgs :
        /\ msgs[id].is_unsent
        /\ msgs[id].unsent_at # None
        /\ msgs[id].unsent_at < now - UNSENT_PLACEHOLDER_HOURS}

cleanup_unsent_placeholders(msgs, now) ==
    LET del == UnsentToDelete(msgs, now)
    IN  [messages |-> Drop(msgs, del),
         emitted |->
            {[kind |-> "message_deleted", to |-> msgs[id].receiverID,
              msgID |-> id] : id \in del},
         deleted |-> del]

(* ------------------------------- Init ---------------------------------- *)
EmptyTable == [x \in {} |-> 0]
\* processes that run the cleanup job: the scheduler and a second instance
Sweepers == {1, 2}
\* a cleanup process between two runs: nothing loaded in its session
IdleSweep == [phase |-> "idle", now |-> None, messages |-> EmptyTable,
              groupStatus |-> EmptyTable, members |-> {},
              users |-> EmptyTable]
\* no key pair generated and no payload stored yet
NoPayload == [encrypted_content |-> <<>>, iv |-> <<>>, auth_tag |-> <<>>,
              encrypted_aes_key |-> <<>>, ephemeral_public_key |-> <<>>]
NoResult == [ok |-> FALSE, value |-> <<>>]
\* public_keys is the public_key table, columns the encryption columns of
\* the message rows, response the status of the last request; key_owner
\* and server_seen are history: the private key that matches each stored
\* public key, and the kinds of secret a request handler has handled;
\* encrypted_group_key is the column of that name of the GroupMember rows,
\* rotation_due is history: a member has left since the last rotation
NoCrypto == [op |-> "none", private_key_str |-> <<>>, public_key_str |-> <<>>,
             plaintext |-> <<>>, aes_key |-> <<>>,
             payload |-> NoPayload, stored |-> NoPayload,
             result |-> NoResult,
             public_keys |-> [x \in {} |-> 0], columns |-> [x \in {} |-> 0],
             response |-> 0,
             key_owner |-> [x \in {} |-> 0], server_seen |-> {},
             encrypted_group_key |-> [x \in {} |-> 0],
             rotation_due |-> FALSE]
NoStep == [op |-> "request", now |-> None,
           messages |-> EmptyTable, groupStatus |-> EmptyTable]

\* the database after the users have registered and the owner has created
\* the group with all of them: no message stored yet
Init ==
    /\ clock = 0
    /\ users = [u \in UserIds |-> NewUser]
    /\ messages = EmptyTable
    /\ nextMsgID = 1
    /\ members = UserIds
    /\ groupStatus = EmptyTable
    /\ unsavedAt = EmptyTable
    /\ emitted = {}
    /\ sweeps = [p \in Sweepers |-> IdleSweep]
    /\ crypto = NoCrypto
    /\ last = NoStep

\* time passes between two requests or two runs of the scheduler
Tick ==
    /\ clock + ClockStep <= MaxTicks * ClockStep
    /\ clock' = clock + ClockStep
    /\ emitted' = {}
    /\ last' = NoStep
    /\ UNCHANGED <<crypto, sweeps, users, messages, nextMsgID, members, groupStatus,
                   unsavedAt>>

(* --------------------------- scheduler.py ------------------------------ *)
\* one run of the cleanup job: direct sweep, group sweep, unsent cleanup.
\* The group sweep's pending status rows reach the database only if the
\* group sweep or the unsent cleanup commits.
run_cleanup_job ==
    LET d == cleanup_expired_messages(messages, users, clock)
        g == cleanup_expired_group_messages(d.messages, groupStatus,
                                            members, users, clock)
        p == cleanup_unsent_placeholders(g.messages, clock)
        committed == g.modified # {} \/ p.deleted # {}
    IN  /\ messages' = p.messages
        /\ groupStatus' = IF committed THEN g.session ELSE groupStatus
        /\ emitted' = d.emitted \cup g.emitted \cup p.emitted
        /\ last' = [op |-> "sweep", now |-> clock,
                    messages |-> messages, groupStatus |-> groupStatus]
        /\ UNCHANGED <<crypto, sweeps, clock, users, nextMsgID, members, unsavedAt>>

(* ----------------------- routes/conversations.py ------------------------ *)
\* POST /<id>/messages by a friend of the receiver
create_message(sender, receiver) ==
    /\ nextMsgID \in MsgIds
    /\ sender \in DOMAIN users /\ receiver \in DOMAIN users
    /\ messages' = Put(messages, nextMsgID,
                       NewDirectMessage(sender, receiver, clock))
    /\ unsavedAt' = Put(unsavedAt, nextMsgID, None)
    /\ nextMsgID' = nextMsgID + 1
    /\ emitted' = {[kind |-> "new_message", to |-> receiver,
                    msgID |-> nextMsgID]}
    /\ last' = NoStep
    /\ UNCHANGED <<crypto, sweeps, clock, users, members, groupStatus>>

\* rows get_messages returns to current_user for the conversation with other
VisibleMessages(msgs, current_user, other, now) ==
    {id \in DOMAIN msgs :
        /\ \/ /\ msgs[id].senderID = current_user
              /\ msgs[id].receiverID = other
              /\ ~msgs[id].deleted_for_sender
           \/ /\ msgs[id].senderID = other
              /\ msgs[id].receiverID = current_user
              /\ ~msgs[id].deleted_for_receiver
        /\ msgs[id].expiryTime > now}

\* mutant: the rows become Read without a read timestamp
get_messages_StatusOnly(current_user, other, contact) ==
    LET vis == VisibleMessages(messages, current_user, other, clock)
        unread == {id \in vis : /\ contact
                                /\ messages[id].senderID = other
                                /\ messages[id].status # "Read"}
    IN  /\ other \in DOMAIN users
        /\ vis # {}
        /\ messages' = [id \in DOMAIN messages |->
                          IF id \in unread
                          THEN [messages[id] EXCEPT !.status = "Read"]
                          ELSE messages[id]]
        /\ emitted' = {[kind |-> "message_status", to |-> other,
                        msgID |-> id] : id \in unread}
        /\ last' = NoStep
        /\ UNCHANGED <<crypto, sweeps, clock, users, nextMsgID, members, groupStatus, unsavedAt>>

\* GET /<id>/messages; contact tells whether the two are still contacts
get_messages(current_user, other, contact) ==
    LET vis == VisibleMessages(messages, current_user, other, clock)
        unread == {id \in vis : /\ contact
                                /\ messages[id].senderID = other
                                /\ messages[id].status # "Read"}
    IN  /\ other \in DOMAIN users
        /\ vis # {}
        /\ messages' = [id \in DOMAIN messages |->
                          IF id \in unread
                          THEN [messages[id] EXCEPT
                                   !.status = "Read",
                                   !.read_by_receiver_at = clock]
                          ELSE messages[id]]
        /\ emitted' = {[kind |-> "message_status", to |-> other,
                        msgID |-> id] : id \in unread}
        /\ last' = NoStep
        /\ UNCHANGED <<crypto, sweeps, clock, users, nextMsgID, members, groupStatus,
                       unsavedAt>>

\* mutant: the requested status is written without looking at the stored one
update_message_status_AnyOrder(current_user, id, new_status) ==
    /\ id \in DOMAIN messages
    /\ messages[id].receiverID = current_user
    /\ messages[id].status # new_status
    /\ \/ /\ new_status = "Delivered"
          /\ messages' = [messages EXCEPT ![id].status = "Delivered"]
       \/ /\ new_status = "Read"
          /\ messages' = [messages EXCEPT
                             ![id].status = "Read",
                             ![id].read_by_receiver_at = clock]
    /\ emitted' = {[kind |-> "message_status", to |-> messages[id].senderID,
                    msgID |-> id]}
    /\ last' = NoStep
    /\ UNCHANGED <<crypto, sweeps, clock, users, nextMsgID, members, groupStatus, unsavedAt>>

\* PATCH /<id>/messages/<mid>/status
update_message_status(current_user, id, new_status) ==
    /\ id \in DOMAIN messages
    /\ messages[id].receiverID = current_user
    /\ \/ /\ messages[id].status = "Sent" /\ new_status = "Delivered"
          /\ messages' = [messages EXCEPT ![id].status = "Delivered"]
       \/ /\ messages[id].status \in {"Sent", "Delivered"}
          /\ new_status = "Read"
          /\ messages' = [messages EXCEPT
                             ![id].status = "Read",
                             ![id].read_by_receiver_at = clock]
    /\ emitted' = {[kind |-> "message_status", to |-> messages[id].senderID,
                    msgID |-> id]}
    /\ last' = NoStep
    /\ UNCHANGED <<crypto, sweeps, clock, users, nextMsgID, members, groupStatus, unsavedAt>>

\* PATCH /<id>/messages/<mid>/save
toggle_save_message(current_user, id, saved) ==
    /\ id \in DOMAIN messages
    /\ current_user \in {messages[id].senderID, messages[id].receiverID}
    /\ messages' =
          IF messages[id].senderID = current_user
          THEN [messages EXCEPT ![id].saved_by_sender = saved]
          ELSE [messages EXCEPT ![id].saved_by_receiver = saved]
    /\ unsavedAt' =
          IF saved THEN [unsavedAt EXCEPT ![id] = None]
          ELSE IF (IF messages[id].senderID = current_user
                   THEN messages[id].saved_by_sender
                   ELSE messages[id].saved_by_receiver)
               THEN [unsavedAt EXCEPT ![id] = clock]
               ELSE unsavedAt
    /\ emitted' = {}
    /\ last' = NoStep
    /\ UNCHANGED <<crypto, sweeps, clock, users, nextMsgID, members, groupStatus>>

(* -------------------------- routes/backups.py -------------------------- *)
\* DELETE /backups/<mid> on a 1-1 message
delete_backup_direct(current_user, id) ==
    /\ id \in DOMAIN messages
    /\ messages[id].groupChatID = None
    /\ current_user \in {messages[id].senderID, messages[id].receiverID}
    /\ IsSaved(messages[id])
    /\ messages' = [messages EXCEPT ![id].saved_by_sender = FALSE,
                                    ![id].saved_by_receiver = FALSE,
                                    ![id].timer_reset_at = clock]
    /\ unsavedAt' = [unsavedAt EXCEPT ![id] = clock]
    /\ emitted' = {[kind |-> "message_saved", to |-> u, msgID |-> id] :
                     u \in {messages[id].senderID, messages[id].receiverID}}
    /\ last' = NoStep
    /\ UNCHANGED <<crypto, sweeps, clock, users, nextMsgID, members, groupStatus>>

(* -------------------------- routes/settings.py ------------------------- *)
\* PUT /settings with a valid payload; None / "unset" stand for a key that
\* the payload does not carry
update_settings(user, hours, theme) ==
    /\ user \in DOMAIN users
    /\ hours # None \/ theme # "unset"
    /\ users' = [users EXCEPT
          ![user].messageRetentionHours =
              IF hours # None THEN hours ELSE @,
          ![user].theme = IF theme # "unset" THEN theme ELSE @,
          ![user].settings_updated_at = clock]
    /\ emitted' = {}
    /\ last' = NoStep
    /\ UNCHANGED <<crypto, sweeps, clock, messages, nextMsgID, members, groupStatus,
                   unsavedAt>>

NextDirect ==
    \/ Tick
    \/ run_cleanup_job
    \/ create_message(DirectSender, DirectReceiver)
    \/ \E c \in BOOLEAN : get_messages(DirectReceiver, DirectSender, c)
    \/ \E id \in MsgIds, ns \in {"Delivered", "Read"} :
          update_message_status(DirectReceiver, id, ns)
    \/ \E u \in {DirectSender, DirectReceiver}, id \in MsgIds,
          saved \in BOOLEAN : toggle_save_message(u, id, saved)
    \/ \E u \in {DirectSender, DirectReceiver}, id \in MsgIds :
          delete_backup_direct(u, id)
    \/ \E u \in SettingsUsers :
          \/ \E h \in RetentionInputs : update_settings(u, h, "unset")
          \/ update_settings(u, None, "dark")

SpecDirect == Init /\ [][NextDirect]_vars

(* --------------------------- routes/groups.py -------------------------- *)
_is_group_member(user) == user \in members

IsGroupMessage(id) ==
    id \in DOMAIN messages /\ messages[id].groupChatID = GroupId

\* POST /groups/<gid>/messages
send_group_message(current_user) ==
    /\ nextMsgID \in MsgIds
    /\ _is_group_member(current_user)
    /\ messages' = Put(messages, nextMsgID,
                       NewGroupMessage(current_user, clock))
    /\ groupStatus' = Put(groupStatus, <<nextMsgID, current_user>>,
                          [NewStatus EXCEPT !.read_at = clock])
    /\ unsavedAt' = Put(unsavedAt, nextMsgID, None)
    /\ nextMsgID' = nextMsgID + 1
    /\ emitted' = {[kind |-> "group_message", to |-> u, msgID |-> nextMsgID] :
                     u \in members \ {current_user}}
    /\ last' = NoStep
    /\ UNCHANGED <<crypto, sweeps, clock, users, members>>

\* _get_user_retention_hours of routes/groups.py
_get_user_retention_hours(u) ==
    IF u.messageRetentionHours # None
    THEN u.messageRetentionHours
    ELSE DEFAULT_RETENTION_HOURS

\* read_count of mark_message_read: the status rows of the message with a
\* read timestamp, as counted after the session flushed the current read,
\* plus one
ReadCount(st, id) ==
    Cardinality({k \in DOMAIN st : k[1] = id /\ st[k].read_at # None}) + 1

\* PATCH /groups/<gid>/messages/<mid>/read
mark_message_read(current_user, id) ==
    LET st2 == Put(groupStatus, <<id, current_user>>,
                   [StatusOf(groupStatus, id, current_user) EXCEPT
                       !.read_at = clock])
        all_read == ReadCount(st2, id) >= Cardinality(members) - 1
        max_hours == Max({DEFAULT_RETENTION_HOURS} \cup
                         {_get_user_retention_hours(users[u]) : u \in members})
    IN  /\ _is_group_member(current_user)
        /\ IsGroupMessage(id)
        /\ IF StatusOf(groupStatus, id, current_user).read_at = None
           THEN /\ groupStatus' = st2
                /\ messages' =
                     IF all_read
                     THEN [messages EXCEPT
                              ![id].expiryTime = clock + max_hours,
                              ![id].status = "Read"]
                     ELSE IF ReadCount(st2, id) = 1
                          THEN [messages EXCEPT ![id].status = "Delivered"]
                          ELSE messages
                /\ emitted' = {[kind |-> "group_message_read",
                                to |-> messages[id].senderID, msgID |-> id,
                                allRead |-> all_read]}
           ELSE /\ groupStatus' = Put(groupStatus, <<id, current_user>>,
                                      StatusOf(groupStatus, id, current_user))
                /\ messages' = messages
                /\ emitted' = {}
        /\ last' = NoStep
        /\ UNCHANGED <<crypto, sweeps, clock, users, nextMsgID, members, unsavedAt>>

\* DELETE /groups/<gid>/messages/<mid>: delete for self only
delete_group_message(current_user, id) ==
    /\ _is_group_member(current_user)
    /\ IsGroupMessage(id)
    /\ groupStatus' = Put(groupStatus, <<id, current_user>>,
                          [StatusOf(groupStatus, id, current_user) EXCEPT
                              !.deleted_for_user = TRUE])
    /\ emitted' = {}
    /\ last' = NoStep
    /\ UNCHANGED <<crypto, sweeps, clock, users, messages, nextMsgID, members, unsavedAt>>

\* PATCH /groups/<gid>/messages/<mid>/save
save_group_message(current_user, id, saved) ==
    /\ _is_group_member(current_user)
    /\ IsGroupMessage(id)
    /\ groupStatus' = Put(groupStatus, <<id, current_user>>,
                          [StatusOf(groupStatus, id, current_user) EXCEPT
                              !.saved_by_user = saved,
                              !.timer_reset_at =
                                  IF ~saved THEN clock ELSE None])
    /\ emitted' = {[kind |-> "group_message_saved", to |-> u, msgID |-> id] :
                     u \in members}
    /\ last' = NoStep
    /\ UNCHANGED <<crypto, sweeps, clock, users, messages, nextMsgID, members, unsavedAt>>

\* DELETE /backups/<mid> on a group message: un-saves for all members
delete_backup_group(current_user, id) ==
    /\ IsGroupMessage(id)
    /\ <<id, current_user>> \in DOMAIN groupStatus
    /\ groupStatus[<<id, current_user>>].saved_by_user
    /\ groupStatus' = [k \in DOMAIN groupStatus |->
                         IF k[1] = id
                         THEN [groupStatus[k] EXCEPT
                                  !.saved_by_user = FALSE,
                                  !.timer_reset_at = clock]
                         ELSE groupStatus[k]]
    /\ emitted' = {[kind |-> "group_message_saved", to |-> u, msgID |-> id] :
                     u \in members}
    /\ last' = NoStep
    /\ UNCHANGED <<crypto, sweeps, clock, users, messages, nextMsgID, members, unsavedAt>>

\* DELETE /backups/<mid>
delete_backup(current_user, id) ==
    \/ delete_backup_group(current_user, id)
    \/ delete_backup_direct(current_user, id)

\* PATCH /groups/<gid>/messages/<mid>/unsend
unsend_group_message(current_user, id) ==
    /\ _is_group_member(current_user)
    /\ IsGroupMessage(id)
    /\ messages[id].senderID = current_user
    /\ ~messages[id].is_unsent
    /\ messages' = [messages EXCEPT
                       ![id].is_unsent = TRUE,
                       ![id].unsent_at = clock,
                       ![id].expiryTime = clock + UNSENT_EXPIRY_HOURS]
    /\ emitted' = {[kind |-> "group_message_unsent", to |-> u, msgID |-> id] :
                     u \in members \ {current_user}}
    /\ last' = NoStep
    /\ UNCHANGED <<crypto, sweeps, clock, users, nextMsgID, members, groupStatus, unsavedAt>>

\* DELETE /groups/<gid>/members/<uid>: the owner removes a member, or a
\* member who is not the owner leaves
remove_member_rows(current_user, member_id) ==
    /\ _is_group_member(current_user)
    /\ member_id = current_user \/ current_user = GroupOwner
    /\ member_id # GroupOwner
    /\ member_id \in members
    /\ groupStatus' = Drop(groupStatus,
                           {k \in DOMAIN groupStatus :
                               IsGroupMessage(k[1]) /\ k[2] = member_id})
    /\ members' = members \ {member_id}
    /\ emitted' = {[kind |-> "group_member_removed", to |-> u, msgID |-> None] :
                     u \in (members \ {current_user})
                           \cup (IF member_id # current_user
                                 THEN {member_id} ELSE {})}
    /\ last' = NoStep
    /\ UNCHANGED <<sweeps, clock, users, messages, nextMsgID, unsavedAt>>

\* the removal where the key column of the rows is not followed
remove_member(current_user, member_id) ==
    remove_member_rows(current_user, member_id) /\ UNCHANGED crypto

\* POST /groups/<gid>/members by the owner, one user at a time
add_members_rows(current_user, member_id) ==
    /\ current_user = GroupOwner /\ _is_group_member(current_user)
    /\ member_id \notin members
    /\ member_id \in DOMAIN users
    /\ members' = members \cup {member_id}
    /\ emitted' = {[kind |-> "group_created", to |-> member_id,
                    msgID |-> None]}
    /\ last' = NoStep
    /\ UNCHANGED <<sweeps, clock, users, messages, nextMsgID, groupStatus, unsavedAt>>

\* the addition where the key column of the rows is not followed
add_members(current_user, member_id) ==
    add_members_rows(current_user, member_id) /\ UNCHANGED crypto

NextGroup ==
    \/ Tick
    \/ run_cleanup_job
    \/ \E u \in GroupSenders : send_group_message(u)
    \/ \E u \in GroupReaders, id \in MsgIds : mark_message_read(u, id)
    \/ \E u \in GroupDeleters, id \in MsgIds : delete_group_message(u, id)
    \/ \E u \in GroupSavers, id \in MsgIds, saved \in BOOLEAN :
          save_group_message(u, id, saved)
    \/ \E u \in GroupSavers, id \in MsgIds : delete_backup_group(u, id)
    \/ \E u \in {GroupOwner} \cup GroupLeavers, m \in GroupLeavers :
          remove_member(u, m)
    \/ \E m \in GroupLeavers : add_members(GroupOwner, m)
    \/ \E u \in SettingsUsers, h \in GroupRetentionInputs :
          update_settings(u, h, "unset")

SpecGroup == Init /\ [][NextGroup]_vars

(* ------------------------- unsent placeholders -------------------------- *)
\* the unsend of a 1-1 message by its sender, as the docstring of
\* cleanup_unsent_placeholders describes it; sender_deleted tells whether
\* the sender's copy is flagged deleted at once
unsend_message(current_user, id, sender_deleted) ==
    /\ id \in DOMAIN messages
    /\ messages[id].groupChatID = None
    /\ messages[id].senderID = current_user
    /\ ~messages[id].is_unsent
    /\ messages' = [messages EXCEPT
                       ![id].is_unsent = TRUE,
                       ![id].unsent_at = clock,
                       ![id].deleted_for_sender =
                           IF sender_deleted THEN TRUE ELSE @]
    /\ emitted' = {[kind |-> "message_unsent",
                    to |-> messages[id].receiverID, msgID |-> id]}
    /\ last' = NoStep
    /\ UNCHANGED <<crypto, sweeps, clock, users, nextMsgID, members, groupStatus, unsavedAt>>

NextUnsent ==
    \/ Tick
    \/ run_cleanup_job
    \/ create_message(DirectSender, DirectReceiver)
    \/ \E id \in MsgIds, ns \in {"Read"} :
          update_message_status(DirectReceiver, id, ns)
    \/ \E id \in MsgIds, saved \in BOOLEAN :
          toggle_save_message(DirectReceiver, id, saved)
    \/ \E id \in MsgIds, d \in BOOLEAN : unsend_message(DirectSender, id, d)
    \/ \E u \in GroupSenders : send_group_message(u)
    \/ \E u \in GroupReaders, id \in MsgIds : mark_message_read(u, id)
    \/ \E u \in GroupDeleters, id \in MsgIds : delete_group_message(u, id)
    \/ \E u \in GroupSavers, id \in MsgIds, saved \in BOOLEAN :
          save_group_message(u, id, saved)
    \/ \E u \in GroupSenders, id \in MsgIds : unsend_group_message(u, id)

SpecUnsent == Init /\ [][NextUnsent]_vars

(* ------------------ other removals of stored messages ------------------- *)
\* the step a removal records: its name and the tables before it
Removal(name) == [op |-> name, now |-> clock,
                  messages |-> messages, groupStatus |-> groupStatus]

\* rows the purge script selects: expiryTime <= utcnow()
Expired(msgs, now) == {id \in DOMAIN msgs : msgs[id].expiryTime <= now}

\* scripts/cleanup_expired_messages.py: delete every expired row, in
\* batches, until none is left
purge_expired_messages ==
    /\ messages' = Drop(messages, Expired(messages, clock))
    /\ emitted' = {}
    /\ last' = Removal("purge_expired_messages")
    /\ UNCHANGED <<crypto, sweeps, clock, users, nextMsgID, members, groupStatus, unsavedAt>>

\* rows exchanged between two users, in both directions
Between(msgs, a, b) ==
    {id \in DOMAIN msgs :
        \/ msgs[id].senderID = a /\ msgs[id].receiverID = b
        \/ msgs[id].senderID = b /\ msgs[id].receiverID = a}

\* DELETE /conversations/<id>
delete_conversation(current_user, conversation_id) ==
    /\ conversation_id \in DOMAIN users
    /\ messages' = Drop(messages,
                        Between(messages, current_user, conversation_id))
    /\ emitted' = {}
    /\ last' = Removal("delete_conversation")
    /\ UNCHANGED <<crypto, sweeps, clock, users, nextMsgID, members, groupStatus, unsavedAt>>

\* POST /friends/block: the 1-1 messages of the two users are deleted (the
\* contact rows it rewrites are not part of this state)
block_user(current_user, target) ==
    /\ target \in DOMAIN users
    /\ target # current_user
    /\ messages' = Drop(messages,
                        {id \in Between(messages, current_user, target) :
                            messages[id].groupChatID = None})
    /\ emitted' = {[kind |-> "user_blocked", to |-> target, msgID |-> None]}
    /\ last' = Removal("block_user")
    /\ UNCHANGED <<crypto, sweeps, clock, users, nextMsgID, members, groupStatus, unsavedAt>>

NextRemoval ==
    \/ Tick
    \/ run_cleanup_job
    \/ create_message(DirectSender, DirectReceiver)
    \/ \E id \in MsgIds, saved \in BOOLEAN :
          toggle_save_message(DirectReceiver, id, saved)
    \/ \E u \in GroupSenders : send_group_message(u)
    \/ \E u \in GroupReaders, id \in MsgIds : mark_message_read(u, id)
    \/ \E u \in GroupDeleters, id \in MsgIds : delete_group_message(u, id)
    \/ purge_expired_messages
    \/ delete_conversation(DirectSender, DirectReceiver)
    \/ delete_conversation(DirectReceiver, DirectSender)
    \/ block_user(DirectReceiver, DirectSender)

SpecRemoval == Init /\ [][NextRemoval]_vars

(* ------------------- settings of users who are not senders -------------- *)
\* users other than the sender who submit settings
ReceiverSettingsUsers == {2}

\* what one run of the cleanup job leaves behind, as a function of the
\* tables it reads
SweepResult(msgs, st, mem, us, now) ==
    LET d == cleanup_expired_messages(msgs, us, now)
        g == cleanup_expired_group_messages(d.messages, st, mem, us, now)
        p == cleanup_unsent_placeholders(g.messages, now)
    IN  [messages |-> p.messages,
         groupStatus |-> IF g.modified # {} \/ p.deleted # {}
                         THEN g.session ELSE st,
         emitted |-> d.emitted \cup g.emitted \cup p.emitted]

NextReceiverSettings ==
    \/ Tick
    \/ run_cleanup_job
    \/ create_message(DirectSender, DirectReceiver)
    \/ \E id \in MsgIds : update_message_status(DirectReceiver, id, "Read")
    \/ \E u \in GroupSenders : send_group_message(u)
    \/ \E u \in GroupReaders, id \in MsgIds : mark_message_read(u, id)
    \/ \E u \in SettingsUsers, h \in GroupRetentionInputs :
          update_settings(u, h, "unset")
    \/ \E u \in ReceiverSettingsUsers, h \in RetentionInputs :
          update_settings(u, h, "unset")

SpecReceiverSettings == Init /\ [][NextReceiverSettings]_vars

(* ------------- the cleanup job as a process beside the requests --------- *)
\* A cleanup process reads the rows of a sweep with one query, works on the
\* objects in its session and writes at commit; requests and other cleanup
\* processes commit in between.  phase: idle, direct (1-1 rows read),
\* between (1-1 sweep committed), group (group rows read), stopped (an
\* exception left main()).
Loaded(phase) ==
    [phase |-> phase, now |-> clock, messages |-> messages,
     groupStatus |-> groupStatus, members |-> members, users |-> users]

Running(p) == sweeps[p].phase \in {"direct", "between", "group"}

\* history: the tables when the first of the cleanup runs now in progress
\* began; "sweep_race" once a second run has begun before the first ended
RaceStart(p) ==
    IF \E q \in Sweepers \ {p} : Running(q)
    THEN IF last.op \in {"sweep_solo", "sweep_race"}
         THEN [last EXCEPT !.op = "sweep_race"]
         ELSE last
    ELSE [op |-> "sweep_solo", now |-> clock,
          messages |-> messages, groupStatus |-> groupStatus]

\* run_cleanup_job starts: the query of cleanup_expired_messages
sweep_read_direct(p) ==
    /\ sweeps[p].phase = "idle"
    /\ sweeps' = [sweeps EXCEPT ![p] = Loaded("direct")]
    /\ last' = RaceStart(p)
    /\ emitted' = {}
    /\ UNCHANGED <<crypto, clock, users, messages, nextMsgID, members, groupStatus,
                   unsavedAt>>

\* the loop and the commit of cleanup_expired_messages: every row it
\* flagged is deleted by primary key (a row that is already gone only
\* draws a warning)
sweep_commit_direct(p) ==
    LET s == sweeps[p]
        d == cleanup_expired_messages(s.messages, s.users, s.now)
    IN  /\ s.phase = "direct"
        /\ messages' = Drop(messages, d.hard_deleted)
        /\ emitted' = d.emitted
        /\ sweeps' = [sweeps EXCEPT ![p] =
                         [IdleSweep EXCEPT !.phase = "between"]]
        /\ UNCHANGED <<crypto, clock, users, nextMsgID, members, groupStatus,
                       unsavedAt, last>>

\* the query of cleanup_expired_group_messages
sweep_read_group(p) ==
    /\ sweeps[p].phase = "between"
    /\ sweeps' = [sweeps EXCEPT ![p] = Loaded("group")]
    /\ emitted' = {}
    /\ UNCHANGED <<crypto, clock, users, messages, nextMsgID, members, groupStatus,
                   unsavedAt, last>>

\* the loop and the commit of cleanup_expired_group_messages, followed by
\* cleanup_unsent_placeholders.  Status rows the session loaded are updated
\* (deleted_for_user only) or deleted, status rows it created are inserted.
\* An update that finds its row gone raises StaleDataError; an insert that
\* finds the row already there fails when the table keeps (msgID, userID)
\* unique.  The exception leaves main(): nothing is written.
sweep_commit_group(p, unique) ==
    LET s == sweeps[p]
        g == cleanup_expired_group_messages(s.messages, s.groupStatus,
                                            s.members, s.users, s.now)
        updated == {k \in DOMAIN s.groupStatus :
                       /\ k[1] \in g.soft_deleted /\ k[2] \in s.members
                       /\ ~s.groupStatus[k].deleted_for_user}
        inserted == (DOMAIN g.session) \ (DOMAIN s.groupStatus)
        removed == {k \in DOMAIN s.groupStatus :
                       k[1] \in g.hard_deleted /\ k[2] \in s.members}
        stale == \E k \in updated : k \notin DOMAIN groupStatus
        conflict == \E k \in inserted : k \in DOMAIN groupStatus
        msgs2 == Drop(messages, g.hard_deleted)
        u == cleanup_unsent_placeholders(msgs2, clock)
        committed == g.modified # {} \/ u.deleted # {}
    IN  /\ s.phase = "group"
        /\ IF stale \/ (conflict /\ unique)
           THEN /\ sweeps' = [sweeps EXCEPT ![p] =
                                 [IdleSweep EXCEPT !.phase = "stopped"]]
                /\ emitted' = g.emitted
                /\ UNCHANGED <<messages, groupStatus>>
           ELSE /\ sweeps' = [sweeps EXCEPT ![p] = IdleSweep]
                /\ emitted' = g.emitted \cup u.emitted
                /\ messages' = u.messages
                /\ groupStatus' =
                     IF committed
                     THEN [k \in ((DOMAIN groupStatus) \cup inserted)
                                    \ removed |->
                             IF k \in inserted THEN g.session[k]
                             ELSE IF k \in updated
                                  THEN [groupStatus[k] EXCEPT
                                           !.deleted_for_user = TRUE]
                                  ELSE groupStatus[k]]
                     ELSE groupStatus
        /\ UNCHANGED <<crypto, clock, users, nextMsgID, members, unsavedAt, last>>

\* a database error (the SQLite file locked by a writing request, a lost
\* connection) is raised inside a cleanup function: neither
\* run_cleanup_job nor main() catches it
sweep_raises(p) ==
    /\ Running(p)
    /\ sweeps' = [sweeps EXCEPT ![p] = [IdleSweep EXCEPT !.phase = "stopped"]]
    /\ emitted' = {}
    /\ UNCHANGED <<crypto, clock, users, messages, nextMsgID, members, groupStatus,
                   unsavedAt, last>>

\* the cleanup process started by scheduler.py
Scheduler == 1

\* one cleanup process beside the requests that save
NextSaveRace ==
    \/ Tick
    \/ create_message(DirectSender, DirectReceiver)
    \/ \E id \in MsgIds, saved \in BOOLEAN :
          toggle_save_message(DirectReceiver, id, saved)
    \/ \E u \in GroupSenders : send_group_message(u)
    \/ \E u \in GroupSavers, id \in MsgIds : mark_message_read(u, id)
    \/ \E u \in GroupSavers, id \in MsgIds, saved \in BOOLEAN :
          save_group_message(u, id, saved)
    \/ sweep_read_direct(Scheduler)
    \/ sweep_commit_direct(Scheduler)
    \/ sweep_read_group(Scheduler)
    \/ \E unique \in BOOLEAN : sweep_commit_group(Scheduler, unique)

SpecSaveRace == Init /\ [][NextSaveRace]_vars

\* two cleanup processes beside the requests that send and read
NextSweepRace ==
    \/ Tick
    \/ create_message(DirectSender, DirectReceiver)
    \/ \E u \in GroupSenders : send_group_message(u)
    \/ \E u \in GroupReaders, id \in MsgIds : mark_message_read(u, id)
    \/ \E p \in Sweepers : sweep_read_direct(p)
    \/ \E p \in Sweepers : sweep_commit_direct(p)
    \/ \E p \in Sweepers : sweep_read_group(p)
    \/ \E p \in Sweepers, unique \in BOOLEAN : sweep_commit_group(p, unique)

SpecSweepRace == Init /\ [][NextSweepRace]_vars

\* the steps of the loop of main(): run_cleanup_job, sleep, again
SchedulerStep ==
    \/ sweep_read_direct(Scheduler)
    \/ sweep_commit_direct(Scheduler)
    \/ sweep_read_group(Scheduler)
    \/ \E unique \in BOOLEAN : sweep_commit_group(Scheduler, unique)

NextScheduler ==
    \/ Tick
    \/ create_message(DirectSender, DirectReceiver)
    \/ \E u \in GroupSenders : send_group_message(u)
    \/ \E u \in GroupReaders, id \in MsgIds : mark_message_read(u, id)
    \/ SchedulerStep
    \/ sweep_raises(Scheduler)

\* while the process lives, the loop of main() keeps taking its next step
SpecScheduler ==
    Init /\ [][NextScheduler]_vars /\ WF_vars(SchedulerStep)

(* ------------------ envelopes whose lookups fail ------------------------ *)
\* msgID values of the two stored envelopes
OrphanMsgIds == {1, 2}
\* the account whose row may be missing from the user table
LostUser == 3

\* rows for which User.query.get returns None, or whose group has no
\* group_member row left
LookupFails(msgs, mem, us) ==
    {id \in DOMAIN msgs :
        /\ ~msgs[id].is_unsent
        /\ IF msgs[id].groupChatID = None
           THEN \/ msgs[id].senderID \notin DOMAIN us
                \/ msgs[id].receiverID \notin DOMAIN us
           ELSE mem = {}}

\* a database holding two envelopes sent at hour 0, in which the row of
\* one account or the member rows of the group may be missing
InitOrphan ==
    /\ clock = 0
    /\ \E D \in {UserIds, UserIds \ {LostUser}} :
          users = [u \in D |-> NewUser]
    /\ \E first \in {DirectSender, LostUser}, grp \in BOOLEAN :
          /\ messages =
               [id \in OrphanMsgIds |->
                   IF id = 1
                   THEN NewDirectMessage(first, DirectReceiver, 0)
                   ELSE IF grp THEN NewGroupMessage(GroupOwner, 0)
                        ELSE NewDirectMessage(DirectSender, DirectReceiver, 0)]
          /\ groupStatus =
               IF grp
               THEN Put(EmptyTable, <<2, GroupOwner>>,
                        [NewStatus EXCEPT !.read_at = 0])
               ELSE EmptyTable
    /\ nextMsgID = 3
    /\ members \in {{}, {DirectSender, DirectReceiver}}
    /\ unsavedAt = [id \in OrphanMsgIds |-> None]
    /\ emitted = {}
    /\ sweeps = [p \in Sweepers |-> IdleSweep]
    /\ crypto = NoCrypto
    /\ last = NoStep

NextOrphan ==
    \/ Tick
    \/ run_cleanup_job
    \/ \E id \in OrphanMsgIds : update_message_status(DirectReceiver, id, "Read")
    \/ \E id \in OrphanMsgIds : toggle_save_message(DirectReceiver, id, TRUE)
    \/ \E id \in OrphanMsgIds : mark_message_read(DirectReceiver, id)
    \/ \E h \in GroupRetentionInputs :
          update_settings(DirectSender, h, "unset")

SpecOrphan == InitOrphan /\ [][NextOrphan]_vars

(* ============================ encryption =============================== *)
\* The byte strings of the encryption package are modelled at a reduced
\* width: a byte has BYTE_BITS bits and a base64 character CHAR_BITS bits,
\* so that three bytes fill four characters as in RFC 4648; keys, nonces
\* and tags keep their roles with shorter lengths.
BYTE_BITS == 4
CHAR_BITS == 3
BYTE == 16
\* the '=' character; larger values are characters outside the alphabet
PAD == 8
\* lengths of an AES key, of a GCM nonce and of a GCM tag, in bytes: the
\* residues modulo 3 of 32, 12 and 16, so that base64 pads the same fields
AES_KEY_LEN == 2
NONCE_LEN == 3
TAG_LEN == 1
\* order of the field and generator of the group that stands for SECP256R1
CURVE_P == 23
CURVE_G == 5

\* outcomes of a call: a value, or an exception
Ok(v) == [ok |-> TRUE, value |-> v]
Raise == [ok |-> FALSE, value |-> <<>>]

RECURSIVE SumSeq(_)
SumSeq(q) == IF q = <<>> THEN 0 ELSE Head(q) + SumSeq(Tail(q))

RECURSIVE Pow(_, _, _)
Pow(b, e, m) == IF e = 0 THEN 1 ELSE (b * Pow(b, e - 1, m)) % m

\* q[:n] and q[n:] of Python, for 0 <= n
Prefix(q, n) == SubSeq(q, 1, IF n < Len(q) THEN n ELSE Len(q))
Suffix(q, n) == SubSeq(q, (IF n < Len(q) THEN n ELSE Len(q)) + 1, Len(q))

(* ----------------------- str.encode / bytes.decode --------------------- *)
\* UTF-8 at the reduced width: code points below 8 take one byte 0xxx,
\* the others a lead byte 11xx and a continuation byte 10xx
utf8_encode_char(c) ==
    IF c < 8 THEN <<c>> ELSE <<12 + ((c - 8) \div 4), 8 + ((c - 8) % 4)>>

RECURSIVE utf8_encode(_)
utf8_encode(str) ==
    IF str = <<>> THEN <<>>
    ELSE utf8_encode_char(Head(str)) \o utf8_encode(Tail(str))

\* bytes.decode('utf-8'): raises on a stray continuation byte and on a lead
\* byte that no continuation byte follows
RECURSIVE utf8_decode(_)
utf8_decode(b) ==
    IF b = <<>> THEN Ok(<<>>)
    ELSE IF b[1] < 8
         THEN LET rest == utf8_decode(Tail(b))
              IN  IF rest.ok THEN Ok(<<b[1]>> \o rest.value) ELSE Raise
    ELSE IF b[1] >= 12 /\ Len(b) >= 2 /\ b[2] >= 8 /\ b[2] < 12
         THEN LET rest == utf8_decode(Tail(Tail(b)))
              IN  IF rest.ok
                  THEN Ok(<<8 + (b[1] - 12) * 4 + (b[2] - 8)>> \o rest.value)
                  ELSE Raise
    ELSE Raise

(* ------------------------------ base64 --------------------------------- *)
\* the bits of a sequence of w-bit values, most significant first
BitsOf(q, w) ==
    [j \in 1..(Len(q) * w) |->
        (q[((j - 1) \div w) + 1] \div (2 ^ (w - 1 - ((j - 1) % w)))) % 2]

\* the first n values of w bits read from a bit string, zero-filled
Regroup(bits, w, n) ==
    [i \in 1..n |->
        LET bit(j) == IF (i - 1) * w + j <= Len(bits)
                      THEN bits[(i - 1) * w + j] ELSE 0
            RECURSIVE val(_)
            val(j) == IF j = 0 THEN 0 ELSE 2 * val(j - 1) + bit(j)
        IN  val(w)]

\* base64.b64encode(...).decode('utf-8')
b64encode(b) ==
    LET nbits == Len(b) * BYTE_BITS
        nchars == (nbits + CHAR_BITS - 1) \div CHAR_BITS
        npad == (4 - (nchars % 4)) % 4
    IN  Regroup(BitsOf(b, BYTE_BITS), CHAR_BITS, nchars)
            \o [i \in 1..npad |-> PAD]

\* the loop of binascii.a2b_base64 from character i on: quad is the
\* position in the group of four, pads the '=' seen since the last data
\* character, data the data characters kept so far. A character outside
\* the alphabet is discarded; the padding that completes a group ends the
\* input; an incomplete group at the end raises binascii.Error.
RECURSIVE a2b_scan(_, _, _, _, _)
a2b_scan(str, i, quad, pads, data) ==
    IF i > Len(str)
    THEN IF quad = 0 THEN Ok(data) ELSE Raise
    ELSE IF str[i] = PAD
         THEN IF quad >= 2 /\ quad + pads + 1 >= 4
              THEN Ok(data)
              ELSE a2b_scan(str, i + 1, quad,
                            IF quad >= 2 THEN pads + 1 ELSE pads, data)
    ELSE IF str[i] > PAD
         THEN a2b_scan(str, i + 1, quad, pads, data)
    ELSE a2b_scan(str, i + 1, (quad + 1) % 4, 0, Append(data, str[i]))

\* base64.b64decode(s.encode('utf-8')): the bits left over in the last
\* character are not examined
b64decode(str) ==
    LET scan == a2b_scan(str, 1, 0, 0, <<>>)
        nbytes == (Len(scan.value) * CHAR_BITS) \div BYTE_BITS
    IN  IF scan.ok
        THEN Ok(Regroup(BitsOf(scan.value, CHAR_BITS), BYTE_BITS, nbytes))
        ELSE Raise

(* -------------------- cryptography: AESGCM, ECDH, HKDF ----------------- *)
\* the key stream of the cipher at position i
KeyStream(key, nonce, i) ==
    (3 * SumSeq(key) + 5 * SumSeq(nonce) + 7 * i + 1) % BYTE

\* the authentication tag over the nonce and the ciphertext: a keyed
\* checksum that every change of one byte, or of two neighbouring bytes
\* through one base64 character, changes
GcmTag(key, nonce, ct) ==
    <<(7 * SumSeq(key) + SumSeq(nonce) + SumSeq(ct) + Len(ct)) % BYTE>>

\* AESGCM(key).encrypt(nonce, data, None): ciphertext with the tag appended
AESGCM_encrypt(key, nonce, data) ==
    LET ct == [i \in 1..Len(data) |->
                  (data[i] + KeyStream(key, nonce, i)) % BYTE]
    IN  ct \o GcmTag(key, nonce, ct)

\* AESGCM(key).decrypt(nonce, data, None): InvalidTag when the data is
\* shorter than a tag or the tag does not match
AESGCM_decrypt(key, nonce, data) ==
    LET ct == Prefix(data, Len(data) - TAG_LEN)
        tag == Suffix(data, Len(data) - TAG_LEN)
    IN  IF Len(data) < TAG_LEN \/ Len(nonce) = 0 THEN Raise
        ELSE IF tag # GcmTag(key, nonce, ct) THEN Raise
        ELSE Ok([i \in 1..Len(ct) |->
                    (ct[i] + BYTE - KeyStream(key, nonce, i)) % BYTE])

\* private_key.public_key() and private_key.exchange(ec.ECDH(), public)
public_key_of(private_key) == Pow(CURVE_G, private_key, CURVE_P)
exchange(private_key, public_key) == Pow(public_key, private_key, CURVE_P)

\* HKDF(SHA256, length, salt=None, info=b'encryption').derive(shared_key)
HKDF_derive(shared_key) ==
    [i \in 1..AES_KEY_LEN |-> (shared_key * (2 * i + 5) + i) % BYTE]

(* ------------------------ encryption/ecc_handler.py -------------------- *)
\* the labels of a PEM block holding a PKCS8 private key and a
\* SubjectPublicKeyInfo
PEM_PRIVATE == 1
PEM_PUBLIC == 2

PemBody(n) == <<n \div BYTE, n % BYTE>>

\* mutant: the private key is written under the label of a public key
serialize_private_key_PublicLabel(private_key) ==
    b64encode(<<PEM_PUBLIC>> \o PemBody(private_key))

serialize_private_key(private_key) ==
    b64encode(<<PEM_PRIVATE>> \o PemBody(private_key))

\* load_pem_private_key raises ValueError on anything but a private key
\* block with a scalar of the curve
deserialize_private_key(private_key_str) ==
    LET pem == b64decode(private_key_str)
        n == pem.value[2] * BYTE + pem.value[3]
    IN  IF ~pem.ok \/ Len(pem.value) # 3 THEN Raise
        ELSE IF pem.value[1] # PEM_PRIVATE THEN Raise
        ELSE IF n < 1 \/ n > CURVE_P - 2 THEN Raise
        ELSE Ok(n)

serialize_public_key(public_key) ==
    b64encode(<<PEM_PUBLIC>> \o PemBody(public_key))

\* load_pem_public_key raises ValueError on anything but a public key block
\* with a point of the curve
deserialize_public_key(public_key_str) ==
    LET pem == b64decode(public_key_str)
        n == pem.value[2] * BYTE + pem.value[3]
    IN  IF ~pem.ok \/ Len(pem.value) # 3 THEN Raise
        ELSE IF pem.value[1] # PEM_PUBLIC THEN Raise
        ELSE IF n < 1 \/ n > CURVE_P - 1 THEN Raise
        ELSE Ok(n)

\* mutant: the nonce is not stored in front of the wrapped key
encrypt_aes_key_with_public_key_NoNonce(aes_key, recipient_public_key, ephemeral_private_key, nonce) ==
    LET shared_key == exchange(ephemeral_private_key, recipient_public_key)
        derived_key == HKDF_derive(shared_key)
        encrypted_aes_key == AESGCM_encrypt(derived_key, nonce, aes_key)
    IN  [encrypted_aes_key |-> b64encode(encrypted_aes_key),
         ephemeral_public_key |->
            serialize_public_key(public_key_of(ephemeral_private_key))]

\* ephemeral_private_key and nonce are the values drawn from
\* ec.generate_private_key and os.urandom
encrypt_aes_key_with_public_key(aes_key, recipient_public_key, ephemeral_private_key, nonce) ==
    LET shared_key == exchange(ephemeral_private_key, recipient_public_key)
        derived_key == HKDF_derive(shared_key)
        encrypted_aes_key == AESGCM_encrypt(derived_key, nonce, aes_key)
    IN  [encrypted_aes_key |-> b64encode(nonce \o encrypted_aes_key),
         ephemeral_public_key |->
            serialize_public_key(public_key_of(ephemeral_private_key))]

decrypt_aes_key_with_private_key(encrypted_data, ephemeral_public_key_str, recipient_private_key) ==
    LET encrypted_bytes == b64decode(encrypted_data)
        nonce == Prefix(encrypted_bytes.value, NONCE_LEN)
        ciphertext == Suffix(encrypted_bytes.value, NONCE_LEN)
        ephemeral_public_key == deserialize_public_key(ephemeral_public_key_str)
        shared_key == exchange(recipient_private_key,
                               ephemeral_public_key.value)
        derived_key == HKDF_derive(shared_key)
    IN  IF ~encrypted_bytes.ok \/ ~ephemeral_public_key.ok THEN Raise
        ELSE AESGCM_decrypt(derived_key, nonce, ciphertext)

(* ------------------------ encryption/aes_handler.py -------------------- *)
\* nonce is the value drawn from os.urandom
encrypt_message(plaintext, aes_key, nonce) ==
    LET ciphertext_with_tag ==
            AESGCM_encrypt(aes_key, nonce, utf8_encode(plaintext))
        tag == Suffix(ciphertext_with_tag, Len(ciphertext_with_tag) - TAG_LEN)
    IN  [ciphertext |-> b64encode(ciphertext_with_tag),
         nonce |-> b64encode(nonce),
         tag |-> b64encode(tag)]

\* tag_b64 is accepted and never read
decrypt_message(ciphertext_b64, nonce_b64, aes_key, tag_b64) ==
    LET ciphertext_bytes == b64decode(ciphertext_b64)
        nonce == b64decode(nonce_b64)
        plaintext_bytes ==
            AESGCM_decrypt(aes_key, nonce.value, ciphertext_bytes.value)
    IN  IF ~ciphertext_bytes.ok \/ ~nonce.ok THEN Raise
        ELSE IF ~plaintext_bytes.ok THEN Raise
        ELSE utf8_decode(plaintext_bytes.value)

encrypt_message_simple(plaintext, aes_key, nonce) ==
    LET result == encrypt_message(plaintext, aes_key, nonce)
    IN  [encrypted_content |-> result.ciphertext,
         iv |-> result.nonce,
         auth_tag |-> result.tag]

decrypt_message_simple(encrypted_content, iv, aes_key) ==
    decrypt_message(encrypted_content, iv, aes_key, <<>>)

(* ---------------------- encryption/message_crypto.py ------------------- *)
\* rnd holds the values the call draws: aes_key, nonce, ephemeral and
\* key_nonce
encrypt_message_for_user(plaintext_message, recipient_public_key_str, rnd) ==
    LET aes_encrypted ==
            encrypt_message_simple(plaintext_message, rnd.aes_key, rnd.nonce)
        recipient_public_key == deserialize_public_key(recipient_public_key_str)
        encrypted_key_data ==
            encrypt_aes_key_with_public_key(rnd.aes_key,
                                            recipient_public_key.value,
                                            rnd.ephemeral, rnd.key_nonce)
    IN  IF ~recipient_public_key.ok THEN Raise
        ELSE Ok([encrypted_content |-> aes_encrypted.encrypted_content,
                 iv |-> aes_encrypted.iv,
                 auth_tag |-> aes_encrypted.auth_tag,
                 encrypted_aes_key |-> encrypted_key_data.encrypted_aes_key,
                 ephemeral_public_key |->
                     encrypted_key_data.ephemeral_public_key])

decrypt_message_from_user(encrypted_content, iv, encrypted_aes_key, ephemeral_public_key, recipient_private_key_str) ==
    LET recipient_private_key ==
            deserialize_private_key(recipient_private_key_str)
        aes_key == decrypt_aes_key_with_private_key(
                       encrypted_aes_key, ephemeral_public_key,
                       recipient_private_key.value)
    IN  IF ~recipient_private_key.ok THEN Raise
        ELSE IF ~aes_key.ok THEN Raise
        ELSE decrypt_message_simple(encrypted_content, iv, aes_key.value)

(* ------------------------- test_encryption.py -------------------------- *)
\* longest plaintext, in code points
MaxPlainLen == 2
\* a one-byte and a two-byte code point
CodePoints == {1, 9}
Plaintexts == UNION {[1..n -> CodePoints] : n \in 0..MaxPlainLen}
\* values drawn by ec.generate_private_key, AESGCM.generate_key, os.urandom
PrivateKeys == {3, 20}
EphemeralKeys == {2, 7}
AesKeys == {<<1, 2>>, <<9, 4>>}
Nonces == {<<1, 2, 3>>, <<10, 0, 15>>}
KeyNonces == {<<4, 8, 12>>}
\* the stored fields of a payload that an alteration is applied to
StoredFields ==
    {"encrypted_content", "iv", "auth_tag", "encrypted_aes_key"}
\* the characters of the base64 alphabet
B64Alphabet == 0..(PAD - 1)

\* the recipient generates a key pair and keeps both keys serialized
generate_key_pair(private_key) ==
    /\ crypto.op = "none"
    /\ crypto' = [crypto EXCEPT
          !.op = "keys",
          !.private_key_str = serialize_private_key(private_key),
          !.public_key_str =
              serialize_public_key(public_key_of(private_key))]
    /\ UNCHANGED <<clock, users, messages, nextMsgID, members, groupStatus,
                   unsavedAt, emitted, sweeps, last>>

\* the sender encrypts a message for the recipient and the relay stores it
send_encrypted(plaintext, rnd) ==
    LET payload == encrypt_message_for_user(plaintext,
                                            crypto.public_key_str, rnd)
    IN  /\ crypto.op = "keys"
        /\ payload.ok
        /\ crypto' = [crypto EXCEPT
              !.op = "stored",
              !.plaintext = plaintext,
              !.aes_key = rnd.aes_key,
              !.payload = payload.value,
              !.stored = payload.value]
        /\ UNCHANGED <<clock, users, messages, nextMsgID, members,
                       groupStatus, unsavedAt, emitted, sweeps, last>>

\* one character of one stored field is replaced by another character of
\* the alphabet
alter_stored(field, i, c) ==
    /\ crypto.op = "stored"
    /\ crypto.stored = crypto.payload
    /\ i \in 1..Len(crypto.stored[field])
    /\ crypto.stored[field][i] \in B64Alphabet
    /\ c # crypto.stored[field][i]
    /\ crypto' = [crypto EXCEPT !.stored[field][i] = c]
    /\ UNCHANGED <<clock, users, messages, nextMsgID, members, groupStatus,
                   unsavedAt, emitted, sweeps, last>>

\* the recipient decrypts what the relay hands out
receive_encrypted ==
    /\ crypto.op = "stored"
    /\ crypto' = [crypto EXCEPT
          !.op = "decrypted",
          !.result = decrypt_message_from_user(
                         crypto.stored.encrypted_content,
                         crypto.stored.iv,
                         crypto.stored.encrypted_aes_key,
                         crypto.stored.ephemeral_public_key,
                         crypto.private_key_str)]
    /\ UNCHANGED <<clock, users, messages, nextMsgID, members, groupStatus,
                   unsavedAt, emitted, sweeps, last>>

\* an AES key is wrapped with the deserialized public key and unwrapped
\* with the deserialized private key
test_key_serialization(test_aes_key, ephemeral, nonce) ==
    LET recovered_private_key == deserialize_private_key(crypto.private_key_str)
        recovered_public_key == deserialize_public_key(crypto.public_key_str)
        encrypted == encrypt_aes_key_with_public_key(
                         test_aes_key, recovered_public_key.value,
                         ephemeral, nonce)
        decrypted == decrypt_aes_key_with_private_key(
                         encrypted.encrypted_aes_key,
                         encrypted.ephemeral_public_key,
                         recovered_private_key.value)
    IN  /\ crypto.op = "keys"
        /\ crypto' = [crypto EXCEPT
              !.op = "unwrapped",
              !.aes_key = test_aes_key,
              !.result =
                  IF recovered_private_key.ok /\ recovered_public_key.ok
                  THEN decrypted ELSE Raise]
        /\ UNCHANGED <<clock, users, messages, nextMsgID, members,
                       groupStatus, unsavedAt, emitted, sweeps, last>>

NextCrypto ==
    \/ \E d \in PrivateKeys : generate_key_pair(d)
    \/ \E plaintext \in Plaintexts, k \in AesKeys, n \in Nonces,
          e \in EphemeralKeys, kn \in KeyNonces :
          send_encrypted(plaintext,
                         [aes_key |-> k, nonce |-> n, ephemeral |-> e,
                          key_nonce |-> kn])
    \/ \E field \in StoredFields, i \in 1..(3 * MaxPlainLen + 8),
          c \in B64Alphabet : alter_stored(field, i, c)
    \/ receive_encrypted
    \/ \E k \in AesKeys, e \in EphemeralKeys, n \in KeyNonces :
          test_key_serialization(k, e, n)

SpecCrypto == Init /\ [][NextCrypto]_vars

(* --------------- routes/auth.py, routes/keys.py: key rows --------------- *)
\* the private key each account's key pair is generated with
KeyOf(u) == 2 * u + 1
\* message texts submitted to the send path: empty, and two characters
SendContents == {<<>>, <<1, 9>>}

\* the database before any account exists
InitSend ==
    /\ clock = 0
    /\ users = EmptyTable
    /\ messages = EmptyTable
    /\ nextMsgID = 1
    /\ members = {}
    /\ groupStatus = EmptyTable
    /\ unsavedAt = EmptyTable
    /\ emitted = {}
    /\ sweeps = [p \in Sweepers |-> IdleSweep]
    /\ crypto = NoCrypto
    /\ last = NoStep

\* POST /auth/register with a valid payload: the handler generates the key
\* pair, stores the public key and drops the private key
register(u, private_key) ==
    /\ u \notin DOMAIN users
    /\ users' = Put(users, u, NewUser)
    /\ crypto' = [crypto EXCEPT
          !.public_keys = Put(@, u, serialize_public_key(
                                        public_key_of(private_key))),
          !.key_owner = Put(@, u, private_key),
          !.server_seen = @ \cup {"private_key"},
          !.response = 201]
    /\ emitted' = {}
    /\ last' = NoStep
    /\ UNCHANGED <<clock, messages, nextMsgID, members, groupStatus,
                   unsavedAt, sweeps>>

\* POST /keys/register: the client submits the public key of a pair it
\* generated
register_public_key(current_user, private_key) ==
    /\ current_user \in DOMAIN users
    /\ IF current_user \in DOMAIN crypto.public_keys
       THEN crypto' = [crypto EXCEPT !.response = 409]
       ELSE crypto' = [crypto EXCEPT
              !.public_keys = Put(@, current_user,
                                  serialize_public_key(
                                      public_key_of(private_key))),
              !.key_owner = Put(@, current_user, private_key),
              !.response = 201]
    /\ emitted' = {}
    /\ last' = NoStep
    /\ UNCHANGED <<clock, users, messages, nextMsgID, members, groupStatus,
                   unsavedAt, sweeps>>

\* DELETE /keys/my-key
delete_my_public_key(current_user) ==
    /\ current_user \in DOMAIN users
    /\ IF current_user \in DOMAIN crypto.public_keys
       THEN crypto' = [crypto EXCEPT
              !.public_keys = Drop(@, {current_user}),
              !.response = 200]
       ELSE crypto' = [crypto EXCEPT !.response = 404]
    /\ emitted' = {}
    /\ last' = NoStep
    /\ UNCHANGED <<clock, users, messages, nextMsgID, members, groupStatus,
                   unsavedAt, sweeps>>

(* ------------- routes/conversations.py: the encryption columns ---------- *)
\* the body a client that encrypts sends: one ciphertext, and the AES key
\* wrapped once for the recipient and once for the sender, each with the
\* public key the client last fetched for that account
ClientPayload(content, sender, receiver, rnd) ==
    LET aes == encrypt_message_simple(content, rnd.aes_key, rnd.nonce)
        forRecipient == encrypt_aes_key_with_public_key(
                            rnd.aes_key,
                            public_key_of(crypto.key_owner[receiver]),
                            rnd.ephemeral, rnd.key_nonce)
        forSender == encrypt_aes_key_with_public_key(
                         rnd.aes_key,
                         public_key_of(crypto.key_owner[sender]),
                         rnd.sender_ephemeral, rnd.key_nonce)
    IN  [encrypted |-> TRUE, content |-> <<>>,
         encryptedContent |-> aes.encrypted_content, iv |-> aes.iv,
         recipientEncryptedKey |-> forRecipient.encrypted_aes_key,
         recipientEphemeralKey |-> forRecipient.ephemeral_public_key,
         senderEncryptedKey |-> forSender.encrypted_aes_key,
         senderEphemeralKey |-> forSender.ephemeral_public_key]

\* the body of a client that leaves the encryption to the server
PlainPayload(content) ==
    [encrypted |-> FALSE, content |-> content,
     encryptedContent |-> <<>>, iv |-> <<>>,
     recipientEncryptedKey |-> <<>>, recipientEphemeralKey |-> <<>>,
     senderEncryptedKey |-> <<>>, senderEphemeralKey |-> <<>>]

\* the status create_message answers with
CreateStatus(current_user, conversation_id, contact, payload) ==
    IF conversation_id \notin DOMAIN users \/ current_user \notin DOMAIN users
    THEN 404
    ELSE IF ~contact THEN 403
    ELSE IF payload.encrypted
    THEN IF \E f \in {"encryptedContent", "iv", "recipientEncryptedKey",
                      "recipientEphemeralKey", "senderEncryptedKey",
                      "senderEphemeralKey"} : payload[f] = <<>>
         THEN 400 ELSE 201
    ELSE IF payload.content = <<>> THEN 400
    ELSE IF conversation_id \notin DOMAIN crypto.public_keys THEN 404
    ELSE IF current_user \notin DOMAIN crypto.public_keys THEN 404
    ELSE 201

\* the encryption columns of the row create_message stores; rnd and
\* sender_rnd are the values the two calls of encrypt_message_for_user draw
CreateColumns(current_user, conversation_id, payload, rnd, sender_rnd) ==
    IF payload.encrypted
    THEN [encryptedContent |-> payload.encryptedContent,
          iv |-> payload.iv,
          hmac |-> <<>>,
          encrypted_aes_key |-> payload.recipientEncryptedKey,
          ephemeral_public_key |-> payload.recipientEphemeralKey,
          sender_encrypted_content |-> payload.encryptedContent,
          sender_iv |-> payload.iv,
          sender_hmac |-> <<>>,
          sender_encrypted_aes_key |-> payload.senderEncryptedKey,
          sender_ephemeral_public_key |-> payload.senderEphemeralKey]
    ELSE LET recipient_encrypted ==
                 encrypt_message_for_user(
                     payload.content,
                     crypto.public_keys[conversation_id], rnd).value
             sender_encrypted ==
                 encrypt_message_for_user(
                     payload.content,
                     crypto.public_keys[current_user], sender_rnd).value
         IN  [encryptedContent |-> recipient_encrypted.encrypted_content,
              iv |-> recipient_encrypted.iv,
              hmac |-> recipient_encrypted.auth_tag,
              encrypted_aes_key |-> recipient_encrypted.encrypted_aes_key,
              ephemeral_public_key |->
                  recipient_encrypted.ephemeral_public_key,
              sender_encrypted_content |-> sender_encrypted.encrypted_content,
              sender_iv |-> sender_encrypted.iv,
              sender_hmac |-> sender_encrypted.auth_tag,
              sender_encrypted_aes_key |-> sender_encrypted.encrypted_aes_key,
              sender_ephemeral_public_key |->
                  sender_encrypted.ephemeral_public_key]

\* POST /<id>/messages with its body: the row and its encryption columns
create_message_payload(current_user, conversation_id, contact, payload, rnd, sender_rnd) ==
    LET code == CreateStatus(current_user, conversation_id, contact, payload)
    IN  /\ nextMsgID \in MsgIds
        /\ IF code = 201
           THEN /\ messages' = Put(messages, nextMsgID,
                                   NewDirectMessage(current_user,
                                                    conversation_id, clock))
                /\ unsavedAt' = Put(unsavedAt, nextMsgID, None)
                /\ nextMsgID' = nextMsgID + 1
                /\ emitted' = {[kind |-> "new_message",
                                to |-> conversation_id, msgID |-> nextMsgID]}
                /\ crypto' = [crypto EXCEPT
                      !.columns = Put(@, nextMsgID,
                                      CreateColumns(current_user,
                                                    conversation_id, payload,
                                                    rnd, sender_rnd)),
                      !.plaintext = payload.content,
                      !.server_seen =
                          IF payload.encrypted THEN @
                          ELSE @ \cup {"plaintext", "aes_key"},
                      !.response = 201]
           ELSE /\ crypto' = [crypto EXCEPT
                      !.plaintext = payload.content,
                      !.server_seen =
                          IF /\ current_user \in DOMAIN users
                             /\ conversation_id \in DOMAIN users
                             /\ contact
                             /\ ~payload.encrypted
                             /\ payload.content # <<>>
                          THEN @ \cup {"plaintext"} ELSE @,
                      !.response = code]
                /\ emitted' = {}
                /\ UNCHANGED <<messages, unsavedAt, nextMsgID>>
        /\ last' = NoStep
        /\ UNCHANGED <<clock, users, members, groupStatus, sweeps>>

\* the values drawn for the recipient's copy and, by the server, for the
\* sender's copy: two calls of generate_aes_key give two keys
RecipientDraw ==
    [aes_key |-> <<1, 2>>, nonce |-> <<1, 2, 3>>, ephemeral |-> 2,
     sender_ephemeral |-> 7, key_nonce |-> <<4, 8, 12>>]
SenderDraw ==
    [aes_key |-> <<9, 4>>, nonce |-> <<10, 0, 15>>, ephemeral |-> 7,
     sender_ephemeral |-> 7, key_nonce |-> <<4, 8, 12>>]

NextSend ==
    \/ \E u \in {DirectSender, DirectReceiver} : register(u, KeyOf(u))
    \/ \E u \in {DirectSender, DirectReceiver} :
          register_public_key(u, KeyOf(u) + 1)
    \/ \E u \in {DirectSender, DirectReceiver} : delete_my_public_key(u)
    \/ \E content \in SendContents, contact \in BOOLEAN :
          create_message_payload(DirectSender, DirectReceiver, contact,
                                 PlainPayload(content),
                                 RecipientDraw, SenderDraw)
    \/ /\ {DirectSender, DirectReceiver} \subseteq DOMAIN crypto.key_owner
       /\ \E content \in SendContents, contact \in BOOLEAN,
             complete \in BOOLEAN :
             create_message_payload(
                 DirectSender, DirectReceiver, contact,
                 [ClientPayload(content, DirectSender, DirectReceiver,
                                RecipientDraw)
                     EXCEPT !.senderEncryptedKey =
                                IF complete THEN @ ELSE <<>>],
                 RecipientDraw, SenderDraw)

SpecSend == InitSend /\ [][NextSend]_vars

(* ------------------ routes/settings.py: the request body --------------- *)
\* bounds of _validate_settings, in seconds and in hours
MIN_RETENTION_SECONDS == 15
MAX_RETENTION_HOURS == 72
SECONDS_PER_HOUR == 3600

\* values of the messageRetentionHours key of a body: absent, a number of
\* hours, or something float() does not convert
AbsentHours == [kind |-> "absent", value |-> 0]
NotANumber == [kind |-> "text", value |-> 0]
Hours(n) == [kind |-> "number", value |-> n]
RawHours == {AbsentHours, NotANumber} \cup
            {Hours(n) : n \in {-5, 0, 1, 12, MAX_RETENTION_HOURS,
                               MAX_RETENTION_HOURS + 1}}
\* values of the theme key: absent, valid, valid after lower(), invalid
RawThemes == {"unset", "dark", "Light", "blue"}

\* str.lower() on the theme values
Lower(theme) == IF theme = "Light" THEN "light" ELSE theme

\* mutant: the upper bound is not tested
_validate_settings_NoMax(payload) ==
    LET h == payload.messageRetentionHours
        theme == Lower(payload.theme)
        hoursOk == /\ h.kind = "number"
                   /\ MIN_RETENTION_SECONDS <= h.value * SECONDS_PER_HOUR
        themeOk == theme \in {"light", "dark"}
    IN  [hours |-> IF hoursOk THEN h.value ELSE None,
         theme |-> IF payload.theme # "unset" /\ themeOk
                   THEN theme ELSE "unset",
         errors |-> \/ h.kind # "absent" /\ ~hoursOk
                    \/ payload.theme # "unset" /\ ~themeOk]

\* updates and errors of a body; min_hours <= hours is compared in seconds
_validate_settings(payload) ==
    LET h == payload.messageRetentionHours
        theme == Lower(payload.theme)
        hoursOk == /\ h.kind = "number"
                   /\ MIN_RETENTION_SECONDS <= h.value * SECONDS_PER_HOUR
                   /\ h.value <= MAX_RETENTION_HOURS
        themeOk == theme \in {"light", "dark"}
    IN  [hours |-> IF hoursOk THEN h.value ELSE None,
         theme |-> IF payload.theme # "unset" /\ themeOk
                   THEN theme ELSE "unset",
         errors |-> \/ h.kind # "absent" /\ ~hoursOk
                    \/ payload.theme # "unset" /\ ~themeOk]

\* PUT /settings with any body: 400 on errors, 200 without a write when
\* the body carries neither key, otherwise the write of update_settings
update_settings_request(user, payload) ==
    LET v == _validate_settings(payload)
        written == ~v.errors /\ (v.hours # None \/ v.theme # "unset")
    IN  /\ user \in DOMAIN users
        /\ users' = IF written
                    THEN [users EXCEPT
                            ![user].messageRetentionHours =
                                IF v.hours # None THEN v.hours ELSE @,
                            ![user].theme =
                                IF v.theme # "unset" THEN v.theme ELSE @,
                            ![user].settings_updated_at = clock]
                    ELSE users
        /\ crypto' = [crypto EXCEPT
                         !.response = IF v.errors THEN 400 ELSE 200]
        /\ emitted' = {}
        /\ last' = NoStep
        /\ UNCHANGED <<clock, messages, nextMsgID, members, groupStatus,
                       unsavedAt, sweeps>>

NextSettings ==
    \/ Tick
    \/ \E u \in SettingsUsers, h \in RawHours, t \in RawThemes :
          update_settings_request(
              u, [messageRetentionHours |-> h, theme |-> t])

SpecSettings == Init /\ [][NextSettings]_vars

(* ---------------- members who delete, leave and come back -------------- *)
NextMembership ==
    \/ Tick
    \/ run_cleanup_job
    \/ create_message(DirectSender, DirectReceiver)
    \/ \E u \in GroupSenders : send_group_message(u)
    \/ \E u \in GroupDeleters, id \in MsgIds : delete_group_message(u, id)
    \/ \E u \in {GroupOwner} \cup GroupLeavers, m \in GroupLeavers :
          remove_member(u, m)
    \/ \E m \in GroupLeavers : add_members(GroupOwner, m)

SpecMembership == Init /\ [][NextMembership]_vars

\* the server keeps answering: while a request or a sweep can run, one does
SpecMembershipServing ==
    Init /\ [][NextMembership]_vars /\ WF_vars(NextMembership)

(* ------------------- routes/groups.py: the group key ------------------- *)
\* The clients generate the group key and wrap it for each member; the
\* server stores one wrapped copy in each GroupMember row.
MaxGroupKeys == 2
GroupKeys == 1..MaxGroupKeys
KeyMembers == {2, 3}

\* the wrapped copy of group key k that only user u can open
Wrapped(k, u) == [key |-> k, to |-> u]
\* a NULL encrypted_group_key
NoKey == [key |-> 0, to |-> 0]

\* the encryptedKeys objects of a request: a client wraps one key for the
\* users it chooses
EncryptedKeys ==
    UNION {{[u \in S |-> Wrapped(k, u)] : S \in SUBSET UserIds} :
              k \in GroupKeys}

\* encrypted_keys.get(str(member_id))
GetKey(encrypted_keys, member_id) ==
    IF member_id \in DOMAIN encrypted_keys
    THEN encrypted_keys[member_id] ELSE NoKey

\* the loop of store_group_keys and of rotate_group_key: the rows of the
\* listed users who are members take the value sent for them
UpdateKeys(rows, encrypted_keys) ==
    [u \in DOMAIN rows |->
        IF u \in DOMAIN encrypted_keys THEN encrypted_keys[u] ELSE rows[u]]

\* the group as create_group leaves it when the owner sends a wrapped copy
\* of the first key for every member
InitKeys ==
    /\ clock = 0
    /\ users = [u \in UserIds |-> NewUser]
    /\ messages = EmptyTable
    /\ nextMsgID = 1
    /\ members = UserIds
    /\ groupStatus = EmptyTable
    /\ unsavedAt = EmptyTable
    /\ emitted = {}
    /\ sweeps = [p \in Sweepers |-> IdleSweep]
    /\ crypto = [NoCrypto EXCEPT
                    !.encrypted_group_key = [u \in UserIds |-> Wrapped(1, u)]]
    /\ last = NoStep

\* DELETE /groups/<gid>/members/<uid>: the row goes with its wrapped key
remove_member_keys(current_user, member_id) ==
    /\ remove_member_rows(current_user, member_id)
    /\ crypto' = [crypto EXCEPT
                     !.op = "remove_member",
                     !.response = 200,
                     !.encrypted_group_key = Drop(@, {member_id}),
                     !.rotation_due = TRUE]

\* POST /groups/<gid>/members: the new row takes the key sent for the user
add_members_keys(current_user, member_id, encrypted_keys) ==
    /\ add_members_rows(current_user, member_id)
    /\ crypto' = [crypto EXCEPT
                     !.op = "add_members",
                     !.response = 200,
                     !.encrypted_group_key =
                         Put(@, member_id, GetKey(encrypted_keys, member_id))]

\* POST /groups/<gid>/keys
store_group_keys(current_user, encrypted_keys) ==
    /\ IF _is_group_member(current_user)
       THEN crypto' = [crypto EXCEPT
                          !.op = "store_group_keys",
                          !.response = 200,
                          !.encrypted_group_key = UpdateKeys(@, encrypted_keys)]
       ELSE crypto' = [crypto EXCEPT
                          !.op = "store_group_keys", !.response = 403]
    /\ emitted' = {}
    /\ last' = NoStep
    /\ UNCHANGED <<sweeps, clock, users, messages, nextMsgID, members, groupStatus, unsavedAt>>

\* POST /groups/<gid>/keys/rotate
rotate_group_key(current_user, encrypted_keys) ==
    /\ IF _is_group_member(current_user)
       THEN /\ crypto' = [crypto EXCEPT
                             !.op = "rotate_group_key",
                             !.response = 200,
                             !.encrypted_group_key =
                                 UpdateKeys(@, encrypted_keys),
                             !.rotation_due = FALSE]
            /\ emitted' = {[kind |-> "group_key_rotated", to |-> u,
                            msgID |-> None] :
                             u \in members \ {current_user}}
       ELSE /\ crypto' = [crypto EXCEPT
                             !.op = "rotate_group_key", !.response = 403]
            /\ emitted' = {}
    /\ last' = NoStep
    /\ UNCHANGED <<sweeps, clock, users, messages, nextMsgID, members, groupStatus, unsavedAt>>

NextKeys ==
    \/ \E u \in UserIds : send_group_message(u)
    \/ \E u \in {GroupOwner} \cup KeyMembers, m \in KeyMembers :
          remove_member_keys(u, m)
    \/ \E m \in KeyMembers, ek \in EncryptedKeys :
          add_members_keys(GroupOwner, m, ek)
    \/ \E u \in UserIds, ek \in EncryptedKeys : store_group_keys(u, ek)
    \/ \E u \in UserIds, ek \in EncryptedKeys : rotate_group_key(u, ek)

SpecKeys == InitKeys /\ [][NextKeys]_vars

(* --------------------------- routes/admin.py --------------------------- *)
\* the dict cleanup_expired_messages returns, without its timestamp; d is
\* the outcome of the sweep, one notification per flipped flag
CleanupStatistics(d) ==
    [hard_deleted_count |-> Cardinality(d.hard_deleted),
     soft_deleted_count |-> Cardinality(d.emitted),
     messages_modified |-> Cardinality(d.hard_deleted \cup d.soft_deleted),
     checked_count |-> Cardinality(d.checked)]

\* result[key] of a dict: a missing key raises KeyError
GetItem(result, key) ==
    IF key \in DOMAIN result THEN Ok(result[key]) ELSE Raise

\* POST /cleanup-messages: the sweep runs and commits, then the response
\* is built from result['deleted_count']; an exception in the view is
\* answered with 500
trigger_cleanup ==
    LET d == cleanup_expired_messages(messages, users, clock)
        result == CleanupStatistics(d)
        deleted == GetItem(result, "deleted_count")
    IN  /\ messages' = d.messages
        /\ emitted' = d.emitted
        /\ crypto' = [crypto EXCEPT
                         !.op = "trigger_cleanup",
                         !.response = IF deleted.ok THEN 200 ELSE 500]
        /\ last' = [op |-> "sweep", now |-> clock,
                    messages |-> messages, groupStatus |-> groupStatus]
        /\ UNCHANGED <<sweeps, clock, users, nextMsgID, members, groupStatus, unsavedAt>>

NextAdmin ==
    \/ Tick
    \/ trigger_cleanup
    \/ create_message(DirectSender, DirectReceiver)
    \/ \E c \in BOOLEAN : get_messages(DirectReceiver, DirectSender, c)
    \/ \E u \in {DirectSender, DirectReceiver}, id \in MsgIds,
          saved \in BOOLEAN : toggle_save_message(u, id, saved)

SpecAdmin == Init /\ [][NextAdmin]_vars

(* ------------- saving by one participant, un-starring by the other ------ *)
\* the receiver only saves and un-saves; the sender also removes backups
NextSaving ==
    \/ Tick
    \/ create_message(DirectSender, DirectReceiver)
    \/ \E c \in BOOLEAN : get_messages(DirectReceiver, DirectSender, c)
    \/ \E id \in MsgIds, saved \in BOOLEAN :
          toggle_save_message(DirectReceiver, id, saved)
    \/ \E id \in MsgIds, saved \in BOOLEAN :
          toggle_save_message(DirectSender, id, saved)
    \/ \E id \in MsgIds : delete_backup_direct(DirectSender, id)

SpecSaving == Init /\ [][NextSaving]_vars

(* --------------------- a commit of the sweep that fails ----------------- *)
\* db.session.commit() of a cleanup function raises (the SQLite file is
\* locked by a request that is writing): the loop before it has already
\* made its emit calls, the session is never committed, and the exception
\* leaves main()
sweep_commit_raises(p) ==
    LET s == sweeps[p]
        d == cleanup_expired_messages(s.messages, s.users, s.now)
        g == cleanup_expired_group_messages(s.messages, s.groupStatus,
                                            s.members, s.users, s.now)
    IN  /\ \/ /\ s.phase = "direct"
              /\ d.hard_deleted \cup d.soft_deleted # {}
              /\ emitted' = d.emitted
           \/ /\ s.phase = "group"
              /\ g.modified # {}
              /\ emitted' = g.emitted
        /\ sweeps' = [sweeps EXCEPT ![p] =
                         [IdleSweep EXCEPT !.phase = "stopped"]]
        /\ UNCHANGED <<crypto, clock, users, messages, nextMsgID, members, groupStatus, unsavedAt, last>>

\* one cleanup process whose commits may fail, beside requests that send
NextCommitError ==
    \/ Tick
    \/ create_message(DirectSender, DirectReceiver)
    \/ \E u \in GroupSenders : send_group_message(u)
    \/ sweep_read_direct(Scheduler)
    \/ sweep_commit_direct(Scheduler)
    \/ sweep_read_group(Scheduler)
    \/ \E unique \in BOOLEAN : sweep_commit_group(Scheduler, unique)
    \/ sweep_commit_raises(Scheduler)

SpecCommitError == Init /\ [][NextCommitError]_vars

(* ------------------- routes/settings.py: get_settings ------------------- *)
\* DEFAULT_SETTINGS of routes/settings.py
DEFAULT_SETTINGS == [messageRetentionHours |-> 72, theme |-> "dark"]

\* the settings get_settings reports for the user row u: the defaults,
\* overridden by the keys the user has stored
_with_defaults(u) ==
    [messageRetentionHours |->
        IF u.messageRetentionHours # None
        THEN u.messageRetentionHours
        ELSE DEFAULT_SETTINGS.messageRetentionHours,
     theme |-> IF u.theme # "unset" THEN u.theme ELSE DEFAULT_SETTINGS.theme]

(* ------------- the scheduler running after the users went quiet --------- *)
\* requests arrive during the first QuietTicks clock values; afterwards
\* only the clock and the cleanup job of scheduler.py run
QuietTicks == 2
QuietFrom == QuietTicks * ClockStep
\* the longest time a deadline of the sweeps lies after the last request
LongestRetention ==
    Max(RetentionInputs \cup GroupRetentionInputs
        \cup {FALLBACK_HOURS, SWEEP_DEFAULT_RETENTION_HOURS,
              GROUP_FALLBACK_HOURS, GROUP_SWEEP_DEFAULT_RETENTION_HOURS,
              UNSENT_PLACEHOLDER_HOURS})
LiveEnd == QuietFrom + LongestRetention

\* time passes, beyond every deadline the stored rows can have
LiveTick ==
    /\ clock < LiveEnd
    /\ clock' = clock + ClockStep
    /\ emitted' = {}
    /\ last' = NoStep
    /\ UNCHANGED <<crypto, sweeps, users, messages, nextMsgID, members, groupStatus, unsavedAt>>

\* the users are still sending requests
Active == clock < QuietFrom

NextLive ==
    \/ LiveTick
    \/ run_cleanup_job
    \/ Active /\ create_message(DirectSender, DirectReceiver)
    \/ Active /\ \E c \in BOOLEAN :
                    get_messages(DirectReceiver, DirectSender, c)
    \/ Active /\ \E id \in MsgIds, saved \in BOOLEAN :
                    toggle_save_message(DirectReceiver, id, saved)
    \/ Active /\ \E u \in GroupSenders : send_group_message(u)
    \/ Active /\ \E u \in GroupReaders, id \in MsgIds :
                    mark_message_read(u, id)
    \/ Active /\ \E u \in GroupSavers, id \in MsgIds, saved \in BOOLEAN :
                    save_group_message(u, id, saved)
    \/ Active /\ \E id \in MsgIds, d \in BOOLEAN :
                    unsend_message(DirectSender, id, d)
    \/ Active /\ \E u \in SettingsUsers, h \in RetentionInputs :
                    update_settings(u, h, "unset")

\* the clock advances and main() of scheduler.py keeps running the job:
\* while time can pass or a run of the job changes something, one of the
\* two happens
SpecLive ==
    Init /\ [][NextLive]_vars /\ WF_vars(LiveTick \/ run_cleanup_job)

(* ======================= properties of the sweeps ====================== *)
\* the last step was a run of the cleanup job
Swept == last.op = "sweep"
\* 1-1 rows and group rows the last sweep found in the table
PreDirect == {id \in DOMAIN last.messages :
                 last.messages[id].groupChatID = None}
PreGroup == {id \in DOMAIN last.messages :
                last.messages[id].groupChatID # None}
Purged(id) == id \notin DOMAIN messages
NotifiedDeleted(id) == {e.to : e \in {x \in emitted : x.msgID = id}}
\* the sweep left the 1-1 row as it found it and notified nobody about it
DirectUntouched(id) ==
    /\ ~Purged(id)
    /\ messages[id] = last.messages[id]
    /\ NotifiedDeleted(id) = {}
\* the sweep flipped both deleted flags of the 1-1 row (one notification
\* per flipped flag)
DirectSoftDeletedBoth(id) ==
    NotifiedDeleted(id) =
        {last.messages[id].senderID, last.messages[id].receiverID}

\* C1: a direct message saved by its sender or its receiver when a sweep
\* evaluates it keeps both deleted flags and stays in storage, in the
\* both-read branch and in the 24-hour fallback branch alike.
C1_SavedExemption ==
    Swept =>
        \A id \in PreDirect :
            IsSaved(last.messages[id]) =>
                /\ ~Purged(id)
                /\ messages[id].deleted_for_sender
                      = last.messages[id].deleted_for_sender
                /\ messages[id].deleted_for_receiver
                      = last.messages[id].deleted_for_receiver
                /\ NotifiedDeleted(id) = {}

\* a sweep met a saved message, read by both sides, past the sender's
\* deadline
C1_Witness ==
    /\ Swept
    /\ \E id \in PreDirect :
          /\ IsSaved(last.messages[id])
          /\ BothRead(last.messages[id])
          /\ last.messages[id].timer_reset_at = None
          /\ users[last.messages[id].senderID].messageRetentionHours # None
          /\ last.now >= BothReadTime(last.messages[id])
                + users[last.messages[id].senderID].messageRetentionHours

\* a sweep met a saved message, unread by the receiver, past the 24 hours
C1_WitnessFallback ==
    /\ Swept
    /\ \E id \in PreDirect :
          /\ IsSaved(last.messages[id])
          /\ ~BothRead(last.messages[id])
          /\ last.now >= last.messages[id].timeStamp + FALLBACK_HOURS

\* C3: a direct message not read by both sides, not saved and not unsent
\* is left alone by every sweep before sentAt + 24 hours and is
\* soft-deleted for both sides by a sweep at or after sentAt + 24 hours,
\* whatever the sender's retention.
C3_FallbackHorizon ==
    Swept =>
        \A id \in PreDirect :
            LET m == last.messages[id] IN
            (~BothRead(m) /\ ~IsSaved(m) /\ ~m.is_unsent) =>
                IF last.now < m.timeStamp + 24
                THEN DirectUntouched(id)
                ELSE DirectSoftDeletedBoth(id)

\* a sweep at sentAt + 24h or later soft-deleted an unread message of a
\* sender whose retention is not 24 hours, the sender having read it
C3_Witness ==
    /\ Swept
    /\ \E id \in PreDirect :
          LET m == last.messages[id] IN
          /\ ~BothRead(m) /\ ~IsSaved(m)
          /\ m.read_by_sender_at # None
          /\ last.now >= m.timeStamp + 24
          /\ users[m.senderID].messageRetentionHours \notin {None, 24}
          /\ DirectSoftDeletedBoth(id)

\* C4: a direct message read by both sides (latest read at T), not saved,
\* without timer reset, whose sender configured a retention and did not
\* change settings after T: a sweep before T + retention changes nothing, a
\* sweep at or after T + retention soft-deletes both sides.
C4_SenderRetentionDeadline ==
    Swept =>
        \A id \in PreDirect :
            LET m == last.messages[id]
                sender == users[m.senderID]
                T == IF m.read_by_sender_at >= m.read_by_receiver_at
                     THEN m.read_by_sender_at ELSE m.read_by_receiver_at
            IN  (/\ m.read_by_sender_at # None
                 /\ m.read_by_receiver_at # None
                 /\ ~m.saved_by_sender /\ ~m.saved_by_receiver
                 /\ ~m.is_unsent
                 /\ m.timer_reset_at = None
                 /\ sender.messageRetentionHours # None
                 /\ ~(sender.settings_updated_at > T)) =>
                IF last.now < T + sender.messageRetentionHours
                THEN DirectUntouched(id)
                ELSE DirectSoftDeletedBoth(id)

\* a sweep soft-deleted both sides of such a message at T + retention
C4_Witness ==
    /\ Swept
    /\ \E id \in PreDirect :
          LET m == last.messages[id]
              sender == users[m.senderID]
          IN  /\ BothRead(m) /\ ~IsSaved(m)
              /\ m.timer_reset_at = None
              /\ sender.messageRetentionHours # None
              /\ ~(sender.settings_updated_at > BothReadTime(m))
              /\ last.now >= BothReadTime(m) + sender.messageRetentionHours
              /\ DirectSoftDeletedBoth(id)

\* C5: for a direct message read by both sides (not saved, sender with a
\* configured retention) the deadline the sweep applies is
\* max(bothReadTime, timerResetAt, sender settings-changed time) + retention:
\* sweeps before it change nothing, sweeps from it on soft-delete both sides.
C5_DirectBaselineIsMax ==
    Swept =>
        \A id \in PreDirect :
            LET m == last.messages[id]
                sender == users[m.senderID]
                baseline == Max({m.read_by_sender_at, m.read_by_receiver_at,
                                 m.timer_reset_at, sender.settings_updated_at})
            IN  (/\ m.read_by_sender_at # None
                 /\ m.read_by_receiver_at # None
                 /\ ~m.saved_by_sender /\ ~m.saved_by_receiver
                 /\ ~m.is_unsent
                 /\ sender.messageRetentionHours # None) =>
                IF last.now < baseline + sender.messageRetentionHours
                THEN DirectUntouched(id)
                ELSE DirectSoftDeletedBoth(id)

\* C6: after a participant unsaved a saved direct message at time u, no
\* sweep before u + sender retention soft-deletes or purges it.
C6_UnsaveRestartsClock ==
    Swept =>
        \A id \in PreDirect :
            LET m == last.messages[id]
                sender == users[m.senderID]
            IN  (/\ unsavedAt[id] # None
                 /\ sender.messageRetentionHours # None
                 /\ last.now < unsavedAt[id] + sender.messageRetentionHours) =>
                /\ ~Purged(id)
                /\ messages[id].deleted_for_sender = m.deleted_for_sender
                /\ messages[id].deleted_for_receiver = m.deleted_for_receiver
                /\ NotifiedDeleted(id) = {}

\* C7: a run of the cleanup job that directly follows another run at the
\* same clock value changes no stored row and emits no notification.
C7_SweepIdempotent ==
    [][(last.op = "sweep" /\ last'.op = "sweep" /\ last'.now = last.now) =>
          (/\ messages' = messages
           /\ groupStatus' = groupStatus
           /\ emitted' = {})]_vars

(* ------------------------------ group ---------------------------------- *)
PreStatus(id, u) == StatusOf(last.groupStatus, id, u)
PostStatus(id, u) == StatusOf(groupStatus, id, u)
NoMemberSaved(id) == \A u \in members : ~PreStatus(id, u).saved_by_user
AllPreDeleted(id) == \A u \in members : PreStatus(id, u).deleted_for_user
\* the sweep marked no member's status row deleted
GroupNoneMarked(id) ==
    /\ NotifiedDeleted(id) = {}
    /\ ~Purged(id) =>
          \A u \in members :
              PostStatus(id, u).deleted_for_user
                 = PreStatus(id, u).deleted_for_user
\* after the sweep every member's status row is there and marked deleted
\* (rows that were all marked before the sweep are purged with the message)
GroupAllMarked(id) ==
    IF AllPreDeleted(id)
    THEN Purged(id)
    ELSE /\ ~Purged(id)
         /\ \A u \in members :
               /\ <<id, u>> \in DOMAIN groupStatus
               /\ groupStatus[<<id, u>>].deleted_for_user

\* C2: a sweep removes an envelope if and only if every relevant deleted
\* flag is true when the sweep has evaluated it (direct: both sides; group:
\* the status row of every current member).
C2_HardDeleteIff ==
    Swept =>
        /\ \A id \in PreDirect :
              LET m == last.messages[id] IN
              (~m.is_unsent
                  /\ (~m.deleted_for_sender \/ ~m.deleted_for_receiver)) =>
                 (Purged(id) <=>
                    /\ m.deleted_for_sender \/ m.senderID \in NotifiedDeleted(id)
                    /\ m.deleted_for_receiver
                          \/ m.receiverID \in NotifiedDeleted(id))
        /\ \A id \in PreGroup :
              (~last.messages[id].is_unsent /\ members # {}) =>
                 (Purged(id) <=>
                    IF Purged(id)
                    THEN AllPreDeleted(id)
                    ELSE \A u \in members : PostStatus(id, u).deleted_for_user)

C9_GroupBaselineIsMax ==
    Swept =>
        \A id \in PreGroup :
            LET m == last.messages[id]
                sender == users[m.senderID]
                baseline ==
                    Max({PreStatus(id, u).read_at : u \in members}
                        \cup {PreStatus(id, u).timer_reset_at : u \in members}
                        \cup {sender.settings_updated_at})
            IN  (/\ ~m.is_unsent
                 /\ members # {}
                 /\ \A u \in members \ {m.senderID} :
                       PreStatus(id, u).read_at # None
                 /\ NoMemberSaved(id)
                 /\ sender.messageRetentionHours # None) =>
                IF last.now < baseline + sender.messageRetentionHours
                THEN GroupNoneMarked(id)
                ELSE GroupAllMarked(id)

PreUnsent == {id \in DOMAIN last.messages :
                 /\ last.messages[id].is_unsent
                 /\ last.messages[id].unsent_at # None}
\* some participant holds the placeholder saved when the sweep runs
TombstoneSaved(id) ==
    \/ IsSaved(last.messages[id])
    \/ \E u \in members : PreStatus(id, u).saved_by_user

C11_WitnessDirect ==
    /\ Swept
    /\ \E id \in PreUnsent :
          /\ last.messages[id].groupChatID = None
          /\ TombstoneSaved(id)
          /\ last.now > last.messages[id].unsent_at + 24
          /\ Purged(id)

\* a run before the 24 hours met a placeholder and kept it
C11_WitnessKept ==
    /\ Swept
    /\ \E id \in PreUnsent :
          /\ last.now < last.messages[id].unsent_at + 24
          /\ last.now > last.messages[id].unsent_at
          /\ ~Purged(id)

(* ------------------------------ removals -------------------------------- *)
\* the last step was an operation that removes messages from storage
Removed == last.op # "request"
\* every participant's deleted flag of the row was true when it was removed
\* (a flag the removing sweep itself flipped counts as true)
AllFlagsAtRemoval(id) ==
    LET m == last.messages[id] IN
    IF m.groupChatID = None
    THEN /\ m.deleted_for_sender
            \/ (Swept /\ m.senderID \in NotifiedDeleted(id))
         /\ m.deleted_for_receiver
            \/ (Swept /\ m.receiverID \in NotifiedDeleted(id))
    ELSE AllPreDeleted(id)

\* C12: whatever operation removes it (a sweep, the expiry purge script,
\* delete_conversation, block_user), a message that is not an unsent
\* placeholder leaves storage only if every participant's deleted flag is
\* true at that moment.
C12_RemovedOnlyWhenAllDeleted ==
    Removed =>
        \A id \in DOMAIN last.messages :
            (Purged(id) /\ ~last.messages[id].is_unsent) =>
                AllFlagsAtRemoval(id)

(* --------------------------- non-interference --------------------------- *)
\* senders of the rows the last sweep found
PreSenders == {last.messages[id].senderID : id \in DOMAIN last.messages}
\* settings rows a user who is not a sender could have instead: never
\* changed, changed at the start, or changed right before the sweep
OtherSettings ==
    [messageRetentionHours : {None} \cup RetentionInputs,
     theme : {"unset"},
     settings_updated_at : {None, 0, last.now}]
\* receivers and group members who sent none of the rows
PreNonSenders ==
    ({last.messages[id].receiverID : id \in PreDirect}
        \cup (IF PreGroup # {} THEN members ELSE {})) \ PreSenders
\* user tables that differ from the stored one only in the settings of
\* those users
OtherUserTables ==
    {[u \in UserIds |-> IF u \in PreNonSenders THEN alt[u] ELSE users[u]] :
        alt \in [PreNonSenders -> OtherSettings]}

C13_WitnessDirect ==
    /\ Swept
    /\ \E id \in PreDirect :
          LET m == last.messages[id] IN
          /\ BothRead(m)
          /\ users[m.senderID].messageRetentionHours # None
          /\ users[m.receiverID].messageRetentionHours # None
          /\ users[m.receiverID].messageRetentionHours
                > users[m.senderID].messageRetentionHours
          /\ users[m.receiverID].settings_updated_at > BothReadTime(m)
          /\ DirectSoftDeletedBoth(id)

(* ----------------------------- concurrency ------------------------------ *)
\* this step is the commit of a sweep of cleanup process p
SweepCommits(p) ==
    /\ sweeps[p].phase \in {"direct", "group"}
    /\ sweeps'[p].phase # sweeps[p].phase
\* a participant's saved flag of the row is true in storage
StoredSaved(id) ==
    \/ IsSaved(messages[id])
    \/ \E u \in members : StatusOf(groupStatus, id, u).saved_by_user

\* C14: a sweep that commits after a participant's save of a message was
\* committed neither removes that message nor flags it deleted for anyone:
\* no commit of a sweep touches a row whose stored saved flag is true.
C14_SaveBeatsSweep ==
    [][\A p \in Sweepers :
          SweepCommits(p) =>
             \A id \in DOMAIN messages :
                (~messages[id].is_unsent /\ StoredSaved(id)) =>
                   /\ id \in DOMAIN messages'
                   /\ messages'[id] = messages[id]
                   /\ \A u \in members :
                         StatusOf(groupStatus', id, u).deleted_for_user
                            = StatusOf(groupStatus, id, u).deleted_for_user]_vars

\* C15: when two runs of the cleanup job have overlapped and both have
\* ended, with no request and no clock change in between, both completed
\* and the tables are what one run alone leaves at that clock value.
C15_ConcurrentSweepsConverge ==
    (last.op = "sweep_race" /\ \A p \in Sweepers : ~Running(p)) =>
        /\ \A p \in Sweepers : sweeps[p].phase = "idle"
        /\ LET one == SweepResult(last.messages, last.groupStatus, members,
                                  users, last.now)
           IN  messages = one.messages /\ groupStatus = one.groupStatus

(* ------------------------------ scheduler ------------------------------- *)
\* C16: after a run of the cleanup job has raised an exception, the
\* scheduler eventually starts another run.
C16_FailedTickFollowedByTick ==
    (sweeps[Scheduler].phase = "stopped")
        ~> (sweeps[Scheduler].phase = "direct")

(* ------------------------- failed lookups ------------------------------- *)
\* envelopes the last sweep found with a failed user or group lookup
PreOrphans == LookupFails(last.messages, members, users)
\* the status rows of the envelopes other than id
StatusWithout(st, id) == Drop(st, {k \in DOMAIN st : k[1] = id})
\* the envelope and its status rows are as the sweep found them
EnvelopeUnchanged(id) ==
    /\ id \in DOMAIN messages
    /\ messages[id] = last.messages[id]
    /\ \A u \in UserIds :
          /\ (<<id, u>> \in DOMAIN groupStatus)
                <=> (<<id, u>> \in DOMAIN last.groupStatus)
          /\ PostStatus(id, u) = PreStatus(id, u)

\* C17: an envelope whose sender, receiver or member list cannot be looked
\* up is left unchanged by the sweep, and the same sweep leaves every other
\* envelope, its status rows and the notifications exactly as a sweep of
\* the tables without that envelope would
C17_OrphanSkipped ==
    Swept =>
      \A o \in PreOrphans :
          /\ EnvelopeUnchanged(o)
          /\ LET r == SweepResult(Drop(last.messages, {o}),
                                  StatusWithout(last.groupStatus, o),
                                  members, users, last.now)
             IN  /\ Drop(messages, {o}) = r.messages
                 /\ StatusWithout(groupStatus, o) = r.groupStatus
                 /\ emitted = r.emitted

\* a 1-1 envelope of the missing account, past the 24-hour horizon, is
\* passed over by the sweep that purges the other envelope
C17_Witness ==
    /\ Swept
    /\ last.now >= FALLBACK_HOURS
    /\ \E o \in PreOrphans :
          /\ last.messages[o].groupChatID = None
          /\ o \in DOMAIN messages
          /\ \E id \in (DOMAIN last.messages) \ PreOrphans :
                id \notin DOMAIN messages

\* a group envelope without member rows is passed over by the sweep that
\* purges the 1-1 envelope
C17_WitnessGroup ==
    /\ Swept
    /\ last.now >= GROUP_FALLBACK_HOURS
    /\ \E o \in PreOrphans :
          /\ last.messages[o].groupChatID # None
          /\ o \in DOMAIN messages
          /\ \E id \in (DOMAIN last.messages) \ PreOrphans :
                id \notin DOMAIN messages

\* a group envelope is soft-deleted by the sweep that passes over the 1-1
\* envelope of the missing account
C17_WitnessOther ==
    /\ Swept
    /\ \E o \in PreOrphans :
          /\ last.messages[o].groupChatID = None
          /\ \E e \in emitted : e.kind = "group_message_deleted"

(* ----------------------------- encryption ------------------------------ *)
\* the recipient has decrypted the payload as it was produced
DecryptedIntact == crypto.op = "decrypted" /\ crypto.stored = crypto.payload
\* the recipient has decrypted a payload of which one field was altered
DecryptedAltered == crypto.op = "decrypted" /\ crypto.stored # crypto.payload

\* C18: decrypting the payload of encrypt_message_for_user with the private
\* key of the recipient returns the plaintext that was encrypted
C18_RoundTrip ==
    DecryptedIntact => crypto.result = Ok(crypto.plaintext)

\* a plaintext holding a one-byte and a two-byte character came back
C18_Witness ==
    /\ DecryptedIntact
    /\ crypto.result.ok
    /\ \E i, j \in 1..Len(crypto.plaintext) :
          crypto.plaintext[i] < 8 /\ crypto.plaintext[j] >= 8

\* C19: when one of encrypted_content, iv, auth_tag and encrypted_aes_key
\* of a stored payload was altered, unwrapping the key or decrypting fails
\* with an error and no plaintext is returned
C19_TamperDetected ==
    DecryptedAltered => ~crypto.result.ok

\* C20: an AES key wrapped with the deserialized public key and unwrapped
\* with the deserialized private key is the AES key that was wrapped
C20_SerializedKeysUsable ==
    crypto.op = "unwrapped" => crypto.result = Ok(crypto.aes_key)

\* the serialized key pair was deserialized, used and gave the key back
C20_Witness ==
    /\ crypto.op = "unwrapped"
    /\ crypto.result.ok
    /\ crypto.result.value = crypto.aes_key
    /\ deserialize_private_key(crypto.private_key_str).ok

(* ------------------------------ send path ------------------------------ *)
\* the AES key a participant unwraps from its own copy of message id
UnwrappedKey(id, side) ==
    LET c == crypto.columns[id]
        owner == IF side = "sender" THEN messages[id].senderID
                 ELSE messages[id].receiverID
    IN  IF owner \notin DOMAIN crypto.key_owner THEN Raise
        ELSE IF side = "sender"
        THEN decrypt_aes_key_with_private_key(
                 c.sender_encrypted_aes_key, c.sender_ephemeral_public_key,
                 crypto.key_owner[owner])
        ELSE decrypt_aes_key_with_private_key(
                 c.encrypted_aes_key, c.ephemeral_public_key,
                 crypto.key_owner[owner])

\* the key of one side decrypts the copy of the other side
OpensOtherCopy(id, side) ==
    LET c == crypto.columns[id]
        k == UnwrappedKey(id, side)
    IN  /\ k.ok
        /\ IF side = "sender"
           THEN decrypt_message(c.encryptedContent, c.iv, k.value, <<>>).ok
           ELSE decrypt_message(c.sender_encrypted_content, c.sender_iv,
                                k.value, <<>>).ok

\* C21: for every stored direct message, the key unwrapped from the
\* sender's copy does not decrypt the receiver's copy and the key unwrapped
\* from the receiver's copy does not decrypt the sender's copy
C21_IndependentCopies ==
    \A id \in (DOMAIN crypto.columns) \cap (DOMAIN messages) :
        ~OpensOtherCopy(id, "sender") /\ ~OpensOtherCopy(id, "receiver")

\* C22: no request handler has handled a message plaintext, a raw AES key
\* or a private key
C22_ServerSeesNoSecret == crypto.server_seen = {}

\* C23: while the recipient has no public_key row, no step stores a
\* message for it
C23_NoKeyNoMessage ==
    [][DirectReceiver \notin DOMAIN crypto.public_keys
          => DOMAIN messages' \subseteq DOMAIN messages]_vars

(* ------------------------------- settings ------------------------------ *)
\* C24: a stored messageRetentionHours lies between 15 seconds and 72
\* hours, whatever bodies update_settings was called with
C24_RetentionWithinBounds ==
    \A u \in DOMAIN users :
        users[u].messageRetentionHours # None =>
            /\ MIN_RETENTION_SECONDS
                  <= users[u].messageRetentionHours * SECONDS_PER_HOUR
            /\ users[u].messageRetentionHours <= MAX_RETENTION_HOURS

\* the largest accepted value is stored and a later body was rejected
C24_Witness ==
    /\ crypto.response = 400
    /\ \E u \in DOMAIN users :
          users[u].messageRetentionHours = MAX_RETENTION_HOURS

\* the smallest whole number of hours is stored
C24_WitnessMin ==
    \E u \in DOMAIN users : users[u].messageRetentionHours = 1

\* C25: settings_updated_at of a user changes only in a step that changes
\* the messageRetentionHours of that user
C25_TimestampOnlyOnRetentionChange ==
    [][\A u \in DOMAIN users :
          users'[u].settings_updated_at # users[u].settings_updated_at
              => users'[u].messageRetentionHours
                    # users[u].messageRetentionHours]_vars

(* --------------------------- monotonic flags --------------------------- *)
\* u takes part in message id: sender or receiver of a 1-1 message, member
\* of the group of a group message
Participant(id, u) ==
    /\ id \in DOMAIN messages
    /\ IF messages[id].groupChatID = None
       THEN u \in {messages[id].senderID, messages[id].receiverID}
       ELSE u \in members

\* the deleted flag of u for message id as the routes read it: a missing
\* status row counts as not deleted
DeletedFor(id, u) ==
    /\ id \in DOMAIN messages
    /\ IF messages[id].groupChatID = None
       THEN \/ u = messages[id].senderID /\ messages[id].deleted_for_sender
            \/ u = messages[id].receiverID /\ messages[id].deleted_for_receiver
       ELSE /\ <<id, u>> \in DOMAIN groupStatus
            /\ groupStatus[<<id, u>>].deleted_for_user

\* C26: once the deleted flag of a participant for a message is true, it
\* is true whenever that participant's flag for the message is read again
C26_DeletedFlagMonotonic ==
    \A id \in MsgIds, u \in UserIds :
        [](DeletedFor(id, u)
              => [](Participant(id, u) => DeletedFor(id, u)))

\* C27: the timer_reset_at of a 1-1 message and of a group status row
\* never moves to an earlier value, nor from a value back to unset
C27_TimerResetMonotonic ==
    [][/\ \A id \in (DOMAIN messages) \cap (DOMAIN messages') :
             messages'[id].timer_reset_at >= messages[id].timer_reset_at
       /\ \A k \in (DOMAIN groupStatus) \cap (DOMAIN groupStatus') :
             groupStatus'[k].timer_reset_at
                >= groupStatus[k].timer_reset_at]_vars

\* position of a delivery status in the order Sent, Delivered, Read
StatusRank(status) ==
    CASE status = "Sent" -> 0
      [] status = "Delivered" -> 1
      [] status = "Read" -> 2
      [] OTHER -> 3

IsDirectMessage(id) ==
    id \in DOMAIN messages /\ messages[id].receiverID # None

\* C30: the delivery status of a 1-1 message never moves backwards in the
\* order Sent, Delivered, Read, and a message that is Read stays Read
C30_StatusOnlyProgresses ==
    [][\A id \in (DOMAIN messages) \cap (DOMAIN messages') :
          IsDirectMessage(id) =>
             /\ StatusRank(messages'[id].status)
                   >= StatusRank(messages[id].status)
             /\ messages[id].status = "Read"
                   => messages'[id].status = "Read"]_vars

\* a 1-1 message that the receiver has read, after requests on it
C30_Witness ==
    \E id \in DOMAIN messages :
        /\ IsDirectMessage(id)
        /\ messages[id].status = "Read"
        /\ messages[id].read_by_receiver_at > messages[id].timeStamp

\* a 1-1 message acknowledged as delivered and not read yet
C30_WitnessDelivered ==
    \E id \in DOMAIN messages :
        IsDirectMessage(id) /\ messages[id].status = "Delivered"

\* C28: from the removal of a member until the next successful rotation of
\* the group key, no message of the group is stored
C28_NoSendBeforeRotation ==
    [][crypto.rotation_due =>
          \A id \in (DOMAIN messages') \ (DOMAIN messages) :
              messages'[id].groupChatID # GroupId]_vars

\* the step is a rotate_group_key request answered with 200
RotationSucceeds ==
    /\ crypto'.op = "rotate_group_key"
    /\ crypto'.response = 200
    /\ UNCHANGED members

\* C29: a successful rotation leaves no member at the wrapped key the row
\* had before while the wrapped key of another member has been replaced
C29_RotationCoversMembers ==
    [][RotationSucceeds =>
          ~ \E u \in members, v \in members :
               /\ crypto'.encrypted_group_key[u] # crypto.encrypted_group_key[u]
               /\ crypto'.encrypted_group_key[v] = crypto.encrypted_group_key[v]]_vars

\* the last sweep turned the deleted flag of user u for the 1-1 row id from
\* false to true; a row both of whose flags are set is purged at once
FlippedFor(id, u) ==
    LET m == last.messages[id]
    IN  \/ /\ u = m.senderID
           /\ ~m.deleted_for_sender
           /\ (Purged(id) \/ messages[id].deleted_for_sender)
        \/ /\ u = m.receiverID
           /\ ~m.deleted_for_receiver
           /\ (Purged(id) \/ messages[id].deleted_for_receiver)

\* C31: a direct sweep notifies user U of the deletion of message M exactly
\* when that sweep turned U's deleted flag for M from false to true; a
\* sweep that flips no flag of M notifies nobody about M
C31_NotifiedIffFlipped ==
    Swept =>
        \A id \in PreDirect :
            ~last.messages[id].is_unsent =>
                \A u \in UserIds :
                    u \in NotifiedDeleted(id) <=> FlippedFor(id, u)

\* a sweep flipped both flags of a 1-1 message and notified both sides
C31_Witness ==
    /\ Swept
    /\ \E id \in PreDirect :
          /\ ~last.messages[id].is_unsent
          /\ FlippedFor(id, last.messages[id].senderID)
          /\ FlippedFor(id, last.messages[id].receiverID)
          /\ last.messages[id].senderID # last.messages[id].receiverID
          /\ NotifiedDeleted(id) = {last.messages[id].senderID,
                                    last.messages[id].receiverID}

\* a sweep met a 1-1 message, flipped no flag and notified nobody
C31_WitnessQuiet ==
    /\ Swept
    /\ \E id \in PreDirect :
          /\ ~last.messages[id].is_unsent
          /\ ~Purged(id)
          /\ NotifiedDeleted(id) = {}

\* every member of the group other than the sender of the group message id
\* has a read timestamp for it
AllOthersRead(id) ==
    \A u \in members \ {messages[id].senderID} :
        StatusOf(groupStatus, id, u).read_at # None

\* C32: mark_message_read reports allRead = true to the sender, and sets
\* the status Read, only when every member other than the sender has a
\* read timestamp for the message
C32_AllReadMeansAllRead ==
    \A e \in emitted :
        (e.kind = "group_message_read" /\ e.allRead) =>
            /\ e.msgID \in DOMAIN messages
            /\ AllOthersRead(e.msgID)

\* C33: trigger_cleanup runs the direct sweep and then answers 200, for
\* every storage state
C33_TriggerCleanupSucceeds ==
    crypto.op = "trigger_cleanup" => crypto.response = 200

\* the step is a request of the receiver of SpecSaving
ReceiverActs ==
    \/ \E c \in BOOLEAN : get_messages(DirectReceiver, DirectSender, c)
    \/ \E id \in MsgIds, saved \in BOOLEAN :
          toggle_save_message(DirectReceiver, id, saved)

\* C34: the saved flag of a participant on a 1-1 message changes only in a
\* request of that participant; here the receiver's flag, while the sender
\* saves, un-saves and removes backups
C34_SavedFlagOwnActionOnly ==
    [][(\E id \in (DOMAIN messages) \cap (DOMAIN messages') :
           messages'[id].saved_by_receiver # messages[id].saved_by_receiver)
       => ReceiverActs]_vars

\* C35: a stored 1-1 message has the status Read exactly when its
\* read_by_receiver_at is set
C35_ReadIffReceiverTimestamp ==
    \A id \in DOMAIN messages :
        IsDirectMessage(id) =>
            (messages[id].status = "Read"
                <=> messages[id].read_by_receiver_at # None)

\* a 1-1 message the receiver has read, with its read timestamp
C35_Witness ==
    \E id \in DOMAIN messages :
        /\ IsDirectMessage(id)
        /\ messages[id].status = "Read"
        /\ messages[id].read_by_receiver_at >= messages[id].read_by_sender_at

\* a 1-1 message acknowledged but not read, without read timestamp
C35_WitnessUnread ==
    \E id \in DOMAIN messages :
        /\ IsDirectMessage(id)
        /\ messages[id].status = "Delivered"
        /\ messages[id].read_by_receiver_at = None

ChangeCommitted(e) ==
    \/ e.msgID \notin DOMAIN messages
    \/ IF messages[e.msgID].groupChatID = None
       THEN \/ e.to = messages[e.msgID].senderID
               /\ messages[e.msgID].deleted_for_sender
            \/ e.to = messages[e.msgID].receiverID
               /\ messages[e.msgID].deleted_for_receiver
       ELSE StatusOf(groupStatus, e.msgID, e.to).deleted_for_user

\* C37: a sweep emits a deletion notification only for a flag flip or a
\* purge that has been committed to storage
C37_NotifiedAfterCommit ==
    \A e \in emitted :
        e.kind \in {"message_deleted", "group_message_deleted"}
            => ChangeCommitted(e)

\* the other participant of the 1-1 message row m, seen from user u
OtherParticipant(m, u) == IF u = m.senderID THEN m.receiverID ELSE m.senderID

\* the deleted flag of participant u in the 1-1 message row m
DeletedForParticipant(m, u) ==
    IF u = m.senderID THEN m.deleted_for_sender ELSE m.deleted_for_receiver

\* C38: a stored 1-1 message whose deleted flag for a participant is false
\* is among the rows get_messages returns to that participant, at every
\* time
C38_LiveMessageReturned ==
    \A id \in DOMAIN messages :
        IsDirectMessage(id) =>
            \A u \in {messages[id].senderID, messages[id].receiverID} :
                ~DeletedForParticipant(messages[id], u) =>
                    id \in VisibleMessages(messages, u,
                              OtherParticipant(messages[id], u), clock)

\* C39: for a sender who has stored no retention duration, the sweep
\* applies the retention duration get_settings reports to that user: it
\* purges a 1-1 message read by both sides no earlier than that duration
\* after the start of the sender's timer
C39_SweepUsesReportedDefault ==
    Swept =>
        \A id \in PreDirect :
            LET m == last.messages[id] IN
            (/\ ~DirectSkipped(m, users)
             /\ users[m.senderID].messageRetentionHours = None
             /\ BothRead(m)
             /\ Purged(id))
            => last.now >= SenderStartTime(m, users[m.senderID])
                  + _with_defaults(users[m.senderID]).messageRetentionHours

\* the stored message id is saved by nobody: neither side of a 1-1
\* message, no member of the group for a group message
NobodySaved(id) ==
    IF messages[id].groupChatID = None
    THEN ~IsSaved(messages[id])
    ELSE ~GroupIsSaved(MemberStatuses(groupStatus, id, members))

\* C40: once the users make no further request, with the clock advancing
\* and the cleanup job running again and again, every stored message that
\* nobody has saved is eventually purged from storage
C40_UnsavedEventuallyPurged ==
    \A id \in MsgIds :
        (clock >= QuietFrom /\ id \in DOMAIN messages /\ NobodySaved(id))
            ~> (id \notin DOMAIN messages)

\* after the users went quiet a sweep, at a later clock value, purged a
\* message it had found in storage
C40_Witness ==
    /\ Swept
    /\ last.now > QuietFrom
    /\ \E id \in DOMAIN last.messages : Purged(id)

====
